---- MODULE Spec2Model ----
(***************************************************************************)
(* A model of the task planning and orchestration core of psscript-manager *)
(*   src/src/ai/agents/task_planning.py      TaskGraph / TaskPlanner       *)
(*   src/src/ai/agents/multi_agent_system.py MultiAgentSystem              *)
(*   src/src/ai/agents/tool_integration.py   RateLimiter / ToolRegistry    *)
(* Task and agent ids are uuid4 strings in the code; here they are the     *)
(* naturals 1, 2, ... handed out in creation order, never reused. 0 stands *)
(* for None.                                                               *)
(***************************************************************************)
EXTENDS Naturals, Integers, Sequences, FiniteSets, TLC

VARIABLES
    graph_nodes,   \* TaskGraph.graph: the nodes of the nx.DiGraph
    graph_edges,   \* TaskGraph.graph: the edges <<source, target>>
    graph_pc,      \* the edges carrying relationship="parent-child"
    ptask,         \* node id -> the Task stored in the node's "task" attribute
    next_id,       \* the next fresh task id (uuid.uuid4())
    seq_pairs,     \* <<t(i), t(i+1)>> of every create_sequential_tasks call
    par_created,   \* per create_parallel_tasks call, the set of tasks it returned
    plast,         \* the last planner call and what it returned
    critical_path, \* what the last get_critical_path call returned
    driver,        \* the driver loop of a plan run: its position and work list
    agents,        \* MultiAgentSystem.agents: agent id -> Agent
    mtasks,        \* MultiAgentSystem.tasks: task id -> Task
    next_agent,    \* the next fresh agent id
    next_mtask,    \* the next fresh task id of the multi-agent system
    mlast,         \* the last MultiAgentSystem call, what it returned and the
                   \* _assign_task calls made inside it
    messages,      \* MultiAgentSystem.messages
    msg_last,      \* the last call about messages and what it returned
    tools,         \* ToolRegistry.tools: tool name -> ToolDefinition
    call_history,  \* RateLimiter.call_history: tool name -> recorded call times
    now,           \* time.time(), in seconds
    executions,    \* the runs of a tool's function by execute_tool: the tool, the
                   \* time, the call's args and use_cache, what the function got
                   \* and what it did
    tcalls,        \* the number of execute_tool calls made
    tlast,         \* the last execute_tool or execute_tool_chain call and the
                   \* results of the execute_tool calls made
    cache,         \* ToolCache.cache: the entries, in the order of the dictionary
    max_size,      \* ToolCache.max_size
    hits,          \* ToolCache.hits
    misses,        \* ToolCache.misses
    clast,         \* the last ToolCache call and what it returned
    memories,        \* WorkingMemory.memories: memory id -> MemoryEntry
    priority_queue,  \* WorkingMemory.priority_queue: <<priority, memory id>>
    capacity,        \* WorkingMemory.capacity
    episodes,        \* EpisodicMemory.episodes, in the order of the dictionary
    current_episode, \* EpisodicMemory.current_episode
    max_episodes,    \* EpisodicMemory.max_episodes
    mem_calls,       \* the number of calls made on the memories
    xlast,           \* the last call on a memory and what it returned
    plan_file,       \* the file save_plan writes and load_plan reads
    openai_installed,  \* main.openai is not None
    openai_api_key,    \* openai.api_key
    app_model,         \* the model of create_app
    environ,           \* os.environ: OPENAI_API_KEY and OPENAI_MODEL
    env_exists,        \* ENV_FILE.exists()
    env_text,          \* the text of ENV_FILE
    analysis_count,    \* main.analysis_count
    analyses_returned, \* the /analyze requests that returned an analysis
    requests,          \* the requests handled
    alast,             \* the last request and its response
    coroutines,        \* the execute_tool coroutines: where each one is
    coordinator,       \* AgentCoordinator.analyze_script: its position, the task
                       \* ids it waits for, start_time and the results returned
    analysis_tasks,    \* multi_agent_system.tasks, for the tasks of the analysis
    long_term          \* LongTermMemory: storage_path, memories, last_save_time

pvars == <<graph_nodes, graph_edges, graph_pc, ptask, next_id, seq_pairs,
           par_created, plast, critical_path, driver>>

mvars == <<agents, mtasks, next_agent, next_mtask, mlast, messages, msg_last>>

cvars == <<cache, max_size, hits, misses, clast>>

tvars == <<tools, call_history, now, executions, tcalls, tlast, cvars>>

wvars == <<memories, priority_queue, capacity>>

evars == <<episodes, current_episode, max_episodes>>

xvars == <<wvars, evars, mem_calls, xlast>>

avars == <<openai_installed, openai_api_key, app_model, environ, env_exists, env_text,
           analysis_count, analyses_returned, requests, alast>>

kvars == <<coordinator, analysis_tasks, long_term>>

svars == <<avars, coroutines, kvars>>

vars == <<pvars, mvars, tvars, xvars, plan_file, svars>>

----------------------------------------------------------------------------
(* Bounds *)
MaxTasks == 3
MaxSpecs == 2
MaxAgents == 1
MaxMTasks == 3
MaxLimit == 2
MaxCalls == 4
MaxTime == 120
MaxMessageTime == 30
MaxCoroutines == 3
MaxEnvLines == 2
MaxRequests == 3
TickSeconds == 30
MaxCacheSize == 2
MaxCachedCalls == 3
MaxChain == 3
MaxSavedTasks == 2
MaxMessages == 3
MaxCapacity == 2
MaxMemoryCalls == 5
MaxEpisodes == 2
MaxEpisodeCalls == 5

----------------------------------------------------------------------------
(* task_planning.py *)

None == 0

\* the ids a caller can name: every id handed out so far, deleted ones included
KnownIds == 1..(next_id - 1)

\* Task.__init__: status as given, dependencies or [], no subtasks
Task(status, parent_id, dependencies) ==
    [status |-> status, parent_id |-> parent_id,
     dependencies |-> dependencies, subtasks |-> {}]

\* nodes that an add_edge created and that carry no "task" attribute
Phantoms == graph_nodes \ DOMAIN ptask

\* DiGraph.predecessors / successors
Predecessors(g_edges, n) == {e[1] : e \in {x \in g_edges : x[2] = n}}
Successors(g_edges, n) == {e[2] : e \in {x \in g_edges : x[1] = n}}

\* TaskGraph.get_task raises KeyError on a node without a "task" attribute
GetTaskRaises(id) == id \in Phantoms

\* TaskGraph.get_dependencies: the tasks of ALL predecessors of the node,
\* dependency edges and parent-child edges alike
GetDependencies(id) == Predecessors(graph_edges, id)

GetNextTasksWithoutDependencies ==
    {t \in DOMAIN ptask :
        ptask[t].status = "PENDING" /\ Predecessors(graph_edges, t) = {}}

\* TaskGraph.get_next_tasks: PENDING tasks whose get_dependencies are all
\* COMPLETED (the call raises KeyError when the graph holds a phantom node)
GetNextTasks ==
    {t \in DOMAIN ptask :
        /\ ptask[t].status = "PENDING"
        /\ \A d \in GetDependencies(t) : ptask[d].status = "COMPLETED"}

Last(op, ret, started) == [op |-> op, ret |-> ret, started |-> started]

\* the planner's graph as one value, so that the creation loops can thread it
Plan == [nodes |-> graph_nodes, edges |-> graph_edges, pc |-> graph_pc,
         tasks |-> ptask, next |-> next_id]

\* TaskGraph.add_task: the node, an edge per dependency, the parent edge
\* (add_edge creates a node that is not in the graph: a phantom, without task)
AddTask(P, id, t) ==
    [P EXCEPT
       !.nodes = @ \cup {id} \cup t.dependencies
                   \cup (IF t.parent_id # None THEN {t.parent_id} ELSE {}),
       !.edges = @ \cup {<<d, id>> : d \in t.dependencies}
                   \cup (IF t.parent_id # None THEN {<<t.parent_id, id>>} ELSE {}),
       !.pc = @ \cup (IF t.parent_id # None THEN {<<t.parent_id, id>>} ELSE {}),
       !.tasks = [x \in DOMAIN P.tasks \cup {id} |->
                    IF x = id THEN t ELSE P.tasks[x]]]

\* TaskPlanner.create_task raises KeyError, after add_task, when get_task meets a
\* parent node that carries no task
CreateTaskRaises(P, parent_id) ==
    parent_id # None /\ parent_id \notin DOMAIN P.tasks

\* TaskPlanner.create_task on a plan: fresh id, add_task, parent.add_subtask
CreateTaskOn(P, status, parent_id, dependencies) ==
    LET id == P.next
        Q == [AddTask(P, id, Task(status, parent_id, dependencies))
                EXCEPT !.next = id + 1]
    IN  IF parent_id # None /\ ~CreateTaskRaises(P, parent_id)
        THEN [Q EXCEPT !.tasks[parent_id].subtasks = @ \cup {id}]
        ELSE Q

SetPlan(P) ==
    /\ graph_nodes' = P.nodes
    /\ graph_edges' = P.edges
    /\ graph_pc' = P.pc
    /\ ptask' = P.tasks
    /\ next_id' = P.next

CreateTask(status, parent_id, dependencies) ==
    /\ next_id <= MaxTasks
    /\ SetPlan(CreateTaskOn(Plan, status, parent_id, dependencies))
    /\ plast' = Last("create_task", IF CreateTaskRaises(Plan, parent_id)
                     THEN "KeyError" ELSE "task", {})
    /\ UNCHANGED <<seq_pairs, par_created, critical_path>>

\* create_sequential_tasks with the dependency on the previous task left out
RECURSIVE SequentialLoopUnchained(_, _, _, _)
SequentialLoopUnchained(P, specs, parent_id, previous_task_id) ==
    IF specs = << >> THEN P
    ELSE LET spec == Head(specs)
             Q == CreateTaskOn(P, spec.status, parent_id, spec.dependencies)
         IN  IF CreateTaskRaises(P, parent_id) THEN Q
             ELSE SequentialLoopUnchained(Q, Tail(specs), parent_id, P.next)

\* the loop of TaskPlanner.create_sequential_tasks: each specification gets the
\* previous task's id appended to its dependencies; a KeyError ends the loop
RECURSIVE SequentialLoop(_, _, _, _)
SequentialLoop(P, specs, parent_id, previous_task_id) ==
    IF specs = << >> THEN P
    ELSE LET spec == Head(specs)
             dependencies == spec.dependencies \cup
                 (IF previous_task_id # None THEN {previous_task_id} ELSE {})
             Q == CreateTaskOn(P, spec.status, parent_id, dependencies)
         IN  IF CreateTaskRaises(P, parent_id) THEN Q
             ELSE SequentialLoop(Q, Tail(specs), parent_id, P.next)

\* the loop of TaskPlanner.create_parallel_tasks: each specification gets the
\* common dependencies appended to its own
RECURSIVE ParallelLoop(_, _, _, _)
ParallelLoop(P, specs, parent_id, common_dependencies) ==
    IF specs = << >> THEN P
    ELSE LET spec == Head(specs)
             dependencies == spec.dependencies \cup common_dependencies
             Q == CreateTaskOn(P, spec.status, parent_id, dependencies)
         IN  IF CreateTaskRaises(P, parent_id) THEN Q
             ELSE ParallelLoop(Q, Tail(specs), parent_id, common_dependencies)

\* TaskPlanner.create_sequential_tasks (TaskDecomposer.decompose_by_steps and
\* decompose_by_time call it with the parent's id)
CreateSequentialTasks(specs, parent_id) ==
    /\ next_id + Len(specs) - 1 <= MaxTasks
    /\ SetPlan(SequentialLoop(Plan, specs, parent_id, None))
    /\ IF CreateTaskRaises(Plan, parent_id)
       THEN /\ plast' = Last("create_sequential_tasks", "KeyError", {})
            /\ UNCHANGED seq_pairs
       ELSE /\ plast' = Last("create_sequential_tasks", "tasks", {})
            /\ seq_pairs' = seq_pairs \cup
                 {<<next_id + i - 1, next_id + i>> : i \in 1..(Len(specs) - 1)}
    /\ UNCHANGED <<par_created, critical_path>>

\* TaskPlanner.create_parallel_tasks
CreateParallelTasks(specs, parent_id, common_dependencies) ==
    /\ next_id + Len(specs) - 1 <= MaxTasks
    /\ SetPlan(ParallelLoop(Plan, specs, parent_id, common_dependencies))
    /\ IF CreateTaskRaises(Plan, parent_id)
       THEN /\ plast' = Last("create_parallel_tasks", "KeyError", {})
            /\ UNCHANGED par_created
       ELSE /\ plast' = Last("create_parallel_tasks", "tasks", {})
            /\ par_created' = par_created \cup
                 {{next_id + i - 1 : i \in 1..Len(specs)}}
    /\ UNCHANGED <<seq_pairs, critical_path>>

\* TaskPlanner.delete_task
DeleteTask(id) ==
    /\ plast' = Last("delete_task", IF id \notin graph_nodes THEN "False"
                     ELSE IF GetTaskRaises(id) THEN "KeyError"
                     ELSE IF ptask[id].parent_id # None
                             /\ GetTaskRaises(ptask[id].parent_id) THEN "KeyError"
                     ELSE "True", {})
    /\ IF plast'.ret = "True"
       THEN /\ graph_nodes' = graph_nodes \ {id}
            /\ graph_edges' = {e \in graph_edges : e[1] # id /\ e[2] # id}
            /\ graph_pc' = {e \in graph_pc : e[1] # id /\ e[2] # id}
            /\ ptask' = [x \in DOMAIN ptask \ {id} |->
                           IF x = ptask[id].parent_id
                           THEN [ptask[x] EXCEPT !.subtasks = @ \ {id}]
                           ELSE ptask[x]]
       ELSE UNCHANGED <<graph_nodes, graph_edges, graph_pc, ptask>>
    /\ UNCHANGED <<next_id, seq_pairs, par_created, critical_path>>

\* TaskPlanner.execute_next_tasks
ExecuteNextTasks ==
    /\ IF Phantoms # {}
       THEN /\ plast' = Last("execute_next_tasks", "KeyError", {})
            /\ UNCHANGED ptask
       ELSE /\ plast' = Last("execute_next_tasks", "started", GetNextTasks)
            /\ ptask' = [x \in DOMAIN ptask |->
                           IF x \in GetNextTasks
                           THEN [ptask[x] EXCEPT !.status = "IN_PROGRESS"]
                           ELSE ptask[x]]
    /\ UNCHANGED <<graph_nodes, graph_edges, graph_pc, next_id, seq_pairs,
                   par_created, critical_path>>

\* TaskPlanner.mark_task_completed / mark_task_failed
MarkTask(op, id, status) ==
    /\ plast' = Last(op,
                     IF id \notin graph_nodes THEN "False"
                     ELSE IF GetTaskRaises(id) THEN "KeyError" ELSE "True", {})
    /\ IF plast'.ret = "True"
       THEN ptask' = [ptask EXCEPT ![id].status = status]
       ELSE UNCHANGED ptask
    /\ UNCHANGED <<graph_nodes, graph_edges, graph_pc, next_id, seq_pairs,
                   par_created, critical_path>>

MarkTaskCompleted(id) == MarkTask("mark_task_completed", id, "COMPLETED")

MarkTaskFailed(id) == MarkTask("mark_task_failed", id, "FAILED")

\* TaskGraph.get_root_tasks / get_leaf_tasks: in_degree 0 / out_degree 0
GetRootTasks == {n \in graph_nodes : Predecessors(graph_edges, n) = {}}

GetLeafTasks == {n \in graph_nodes : Successors(graph_edges, n) = {}}

\* the paths of the graph from source to target, as sequences of nodes
IsPath(p) == \A i \in 1..(Len(p) - 1) : <<p[i], p[i + 1]>> \in graph_edges

Paths(source, target) ==
    {p \in UNION {[1..n -> graph_nodes] : n \in 1..Cardinality(graph_nodes)} :
        /\ p[1] = source
        /\ p[Len(p)] = target
        /\ IsPath(p)}

\* nx.shortest_path(graph, source, target): a path with the fewest nodes
\* (NetworkXNoPath when there is none); which one among equals is networkx's
ShortestPaths(source, target) ==
    {p \in Paths(source, target) :
        \A q \in Paths(source, target) : Len(p) <= Len(q)}

\* TaskGraph.get_critical_path: over all root/leaf pairs, the first shortest
\* path that is longer than every one before it
CriticalPaths ==
    LET found == UNION {ShortestPaths(r, l) : r \in GetRootTasks, l \in GetLeafTasks}
    IN  IF found = {} THEN {<< >>}
        ELSE {p \in found : \A q \in found : Len(q) <= Len(p)}

GetCriticalPath ==
    /\ IF Phantoms # {}
       THEN /\ plast' = Last("get_critical_path", "KeyError", {})
            /\ UNCHANGED critical_path
       ELSE /\ plast' = Last("get_critical_path", "path", {})
            /\ critical_path' \in CriticalPaths
    /\ UNCHANGED <<graph_nodes, graph_edges, graph_pc, ptask, next_id, seq_pairs,
                   par_created>>

\* Task.to_dict: the enums by their names, the lists as they are
TaskToDict(t) ==
    [status |-> t.status, parent_id |-> t.parent_id,
     dependencies |-> t.dependencies, subtasks |-> t.subtasks]

\* Task.from_dict: the constructor with the stored status, parent_id and
\* dependencies, then the stored subtasks
TaskFromDict(data) ==
    [Task(data.status, data.parent_id, data.dependencies)
        EXCEPT !.subtasks = data.subtasks]

\* TaskGraph.to_dict: the task of every node, and every edge with its
\* relationship ("dependency" when the edge carries none)
ToDict(P) ==
    [written |-> TRUE,
     tasks |-> [id \in DOMAIN P.tasks |-> TaskToDict(P.tasks[id])],
     edges |-> {[source |-> e[1], target |-> e[2],
                 relationship |-> IF e \in P.pc THEN "parent-child" ELSE "dependency"] :
                e \in P.edges}]

\* the first loop of TaskGraph.from_dict: add_task of every stored task
RECURSIVE AddTasks(_, _, _)
AddTasks(P, tasks, ids) ==
    IF ids = {} THEN P
    ELSE LET id == CHOOSE x \in ids : \A y \in ids : x <= y
         IN  AddTasks(AddTask(P, id, TaskFromDict(tasks[id])), tasks, ids \ {id})

\* TaskGraph.from_dict: a new graph, the tasks, then add_edge of every stored
\* edge
FromDict(P, data) ==
    LET G == AddTasks([P EXCEPT !.nodes = {}, !.edges = {}, !.pc = {},
                                !.tasks = << >>],
                      data.tasks, DOMAIN data.tasks)
    IN  [G EXCEPT
           !.nodes = @ \cup {e.source : e \in data.edges}
                       \cup {e.target : e \in data.edges},
           !.edges = @ \cup {<<e.source, e.target>> : e \in data.edges},
           !.pc = @ \cup {<<e.source, e.target>> :
                            e \in {x \in data.edges : x.relationship = "parent-child"}}]

\* no file at the path
NoFile == [written |-> FALSE, tasks |-> << >>, edges |-> {}]

\* TaskPlanner.save_plan: to_dict raises KeyError at a node without a task,
\* before the file is opened
SavePlan ==
    /\ IF Phantoms # {}
       THEN /\ plast' = Last("save_plan", "False", {})
            /\ UNCHANGED plan_file
       ELSE /\ plast' = Last("save_plan", "True", {})
            /\ plan_file' = ToDict(Plan)
    /\ UNCHANGED <<graph_nodes, graph_edges, graph_pc, ptask, next_id, seq_pairs,
                   par_created, critical_path>>

\* TaskPlanner.load_plan
LoadPlan ==
    /\ IF plan_file.written
       THEN /\ plast' = Last("load_plan", "True", {})
            /\ SetPlan(FromDict(Plan, plan_file))
       ELSE /\ plast' = Last("load_plan", "False", {})
            /\ UNCHANGED <<graph_nodes, graph_edges, graph_pc, ptask, next_id>>
    /\ UNCHANGED <<plan_file, seq_pairs, par_created, critical_path>>

\* the task specifications handed to the creation calls: "status" is left to
\* its default, "dependencies" names ids handed out before the call
TaskSpecs == [status : {"PENDING"}, dependencies : SUBSET KnownIds]

SpecLists(n) == [1..n -> TaskSpecs]

\* how many tasks a creation call may still add within MaxTasks
Room == IF MaxTasks + 1 - next_id < MaxSpecs
        THEN MaxTasks + 1 - next_id ELSE MaxSpecs

ParentIds == {None} \cup KnownIds

PlannerInit ==
    /\ graph_nodes = {}
    /\ graph_edges = {}
    /\ graph_pc = {}
    /\ ptask = << >>
    /\ next_id = 1
    /\ seq_pairs = {}
    /\ par_created = {}
    /\ plast = Last("init", "None", {})
    /\ critical_path = << >>

----------------------------------------------------------------------------
(* multi_agent_system.py *)

\* the capabilities of the agent _create_coordinator_agent builds
CoordinatorCapabilities ==
    {"PLANNING", "REASONING", "COMMUNICATION", "MEMORY_MANAGEMENT"}

\* the capability lists callers give to add_agent and ask for in create_task
AgentCapabilities == {{"PLANNING", "SCRIPT_ANALYSIS"}}

RequiredCapabilities == {{"PLANNING"}, {"SCRIPT_ANALYSIS"}}

InputRoles == {"COORDINATOR", "ANALYST"}

\* Agent.__init__
Agent(role, capabilities) ==
    [role |-> role, capabilities |-> capabilities, current_task_id |-> None]

\* multi_agent_system.Task.__init__
MTask(required_capabilities, parent_task_id) ==
    [status |-> "PENDING", assigned_agent_id |-> None,
     required_capabilities |-> required_capabilities,
     parent_task_id |-> parent_task_id, subtasks |-> {}, dependencies |-> {}]

KnownAgentIds == 1..(next_agent - 1)

KnownMTaskIds == 1..(next_mtask - 1)

\* an id that names no task of the system
UnknownMTaskId == MaxMTasks + 1

\* the system as one value, which _assign_task and its callers thread along;
\* attempts lists the _assign_task calls made: the task, its assigned_agent_id
\* when the call began, the agent it was given to (None when the call returned
\* False) and that agent's current_task_id when it was picked
System == [agents |-> agents, tasks |-> mtasks, attempts |-> << >>]

\* Agent.can_handle_task
CanHandleTask(agent, task) == task.required_capabilities \subseteq agent.capabilities

IsAvailableAlways(agent) == TRUE

\* Agent.is_available
IsAvailable(agent) == agent.current_task_id = None

OpenDependencyNever(S, id) == FALSE

\* the dependency loop of _assign_task and of _check_blocked_tasks: a dependency
\* that is in the system and not COMPLETED
OpenDependency(S, id) ==
    \E d \in S.tasks[id].dependencies :
        d \in DOMAIN S.tasks /\ S.tasks[d].status # "COMPLETED"

\* the agents _assign_task may pick
AvailableAgents(S, id) ==
    {a \in DOMAIN S.agents :
        IsAvailable(S.agents[a]) /\ CanHandleTask(S.agents[a], S.tasks[id])}

\* the stable sort by matched capabilities leaves the agents, which all match
\* every required capability, in the order of the agents dictionary
BestAgent(S, id) ==
    CHOOSE a \in AvailableAgents(S, id) : \A b \in AvailableAgents(S, id) : a <= b

Attempt(S, id, agent_id) ==
    [S EXCEPT !.attempts = Append(@,
        [task |-> id, agent |-> agent_id,
         before |-> IF id \in DOMAIN S.tasks THEN S.tasks[id].assigned_agent_id
                    ELSE None,
         current |-> IF agent_id = None THEN None
                     ELSE S.agents[agent_id].current_task_id])]

\* MultiAgentSystem._assign_task (with Agent.assign_task and Task.assign)
AssignTask(S, id) ==
    IF id \notin DOMAIN S.tasks THEN Attempt(S, id, None)
    ELSE IF S.tasks[id].assigned_agent_id # None THEN Attempt(S, id, None)
    ELSE IF OpenDependency(S, id)
    THEN [Attempt(S, id, None) EXCEPT !.tasks[id].status = "BLOCKED"]
    ELSE IF AvailableAgents(S, id) = {} THEN Attempt(S, id, None)
    ELSE [Attempt(S, id, BestAgent(S, id)) EXCEPT
            !.agents[BestAgent(S, id)].current_task_id = id,
            !.tasks[id].assigned_agent_id = BestAgent(S, id),
            !.tasks[id].status = "ASSIGNED"]

\* what the last _assign_task call returned
Assigned(S) == S.attempts # << >> /\ S.attempts[Len(S.attempts)].agent # None

Bool(b) == IF b THEN "True" ELSE "False"

\* the last operation: its name, the agent id given to remove_agent, what it
\* returned and the _assign_task calls it made
MLast(op, ret, attempts) ==
    [op |-> op, agent |-> None, ret |-> ret, attempts |-> attempts]

SetSystem(S) ==
    /\ agents' = S.agents
    /\ mtasks' = S.tasks

\* MultiAgentSystem.add_agent
AddAgent(role, capabilities) ==
    /\ next_agent <= MaxAgents + 1
    /\ agents' = [a \in DOMAIN agents \cup {next_agent} |->
                    IF a = next_agent THEN Agent(role, capabilities) ELSE agents[a]]
    /\ next_agent' = next_agent + 1
    /\ mlast' = MLast("add_agent", "id", << >>)
    /\ UNCHANGED <<mtasks, next_mtask>>

RemovableAnyRole(id) == id \in DOMAIN agents

\* the guards of remove_agent: the agent is in the system and is not a coordinator
Removable(id) == id \in DOMAIN agents /\ agents[id].role # "COORDINATOR"

\* MultiAgentSystem.remove_agent (with Task.cancel)
RemoveAgent(id) ==
    /\ IF Removable(id)
       THEN /\ agents' = [a \in DOMAIN agents \ {id} |-> agents[a]]
            /\ mtasks' = IF agents[id].current_task_id \in DOMAIN mtasks
                         THEN [mtasks EXCEPT
                                 ![agents[id].current_task_id].status = "CANCELLED"]
                         ELSE mtasks
            /\ mlast' = [MLast("remove_agent", "True", << >>) EXCEPT !.agent = id]
       ELSE /\ UNCHANGED <<agents, mtasks>>
            /\ mlast' = [MLast("remove_agent", "False", << >>) EXCEPT !.agent = id]
    /\ UNCHANGED <<next_agent, next_mtask>>

\* MultiAgentSystem.create_task: the task, the parent's subtask, _assign_task
MCreateTask(required_capabilities, parent_task_id) ==
    /\ next_mtask <= MaxMTasks
    /\ LET id == next_mtask
           added == [t \in DOMAIN mtasks \cup {id} |->
                       IF t = id THEN MTask(required_capabilities, parent_task_id)
                       ELSE IF t = parent_task_id
                            THEN [mtasks[t] EXCEPT !.subtasks = @ \cup {id}]
                            ELSE mtasks[t]]
           S == AssignTask([System EXCEPT !.tasks = added], id)
       IN  /\ SetSystem(S)
           /\ mlast' = MLast("create_task", "id", S.attempts)
    /\ next_mtask' = next_mtask + 1
    /\ UNCHANGED next_agent

\* multi_agent_system.Task.add_dependency on a task of the system
AddDependency(id, dependency_id) ==
    /\ id \in DOMAIN mtasks
    /\ mtasks' = [mtasks EXCEPT ![id].dependencies = @ \cup {dependency_id}]
    /\ mlast' = MLast("add_dependency", "None", << >>)
    /\ UNCHANGED <<agents, next_agent, next_mtask>>

\* a call of MultiAgentSystem._assign_task on its own
AssignTaskCall(id) ==
    /\ LET S == AssignTask(System, id)
       IN  /\ SetSystem(S)
           /\ mlast' = MLast("_assign_task", Bool(Assigned(S)), S.attempts)
    /\ UNCHANGED <<next_agent, next_mtask>>

\* the BLOCKED tasks, in the order of the tasks dictionary
RECURSIVE Ascending(_)
Ascending(ids) ==
    IF ids = {} THEN << >>
    ELSE LET least == CHOOSE x \in ids : \A y \in ids : x <= y
         IN  <<least>> \o Ascending(ids \ {least})

UnblockLoopSkipped(S, blocked_tasks) == S

\* the loop of MultiAgentSystem._check_blocked_tasks over the blocked tasks
RECURSIVE UnblockLoop(_, _)
UnblockLoop(S, blocked_tasks) ==
    IF blocked_tasks = << >> THEN S
    ELSE LET id == Head(blocked_tasks)
         IN  IF OpenDependency(S, id)
             THEN UnblockLoop(S, Tail(blocked_tasks))
             ELSE UnblockLoop(
                     AssignTask([S EXCEPT !.tasks[id].status = "PENDING"], id),
                     Tail(blocked_tasks))

\* MultiAgentSystem._check_blocked_tasks
CheckBlockedTasks(S) ==
    UnblockLoop(S, Ascending({t \in DOMAIN S.tasks : S.tasks[t].status = "BLOCKED"}))

\* the guards complete_task and fail_task share: the task exists, is assigned,
\* and its agent is still in the system
Finishable(id) ==
    /\ id \in DOMAIN mtasks
    /\ mtasks[id].assigned_agent_id # None
    /\ mtasks[id].assigned_agent_id \in DOMAIN agents

\* Agent.complete_task / Agent.fail_task
FinishTask(S, id, status) ==
    [S EXCEPT !.tasks[id].status = status,
              !.agents[S.tasks[id].assigned_agent_id].current_task_id = None]

\* MultiAgentSystem.complete_task
CompleteTask(id) ==
    /\ IF Finishable(id)
       THEN LET S == CheckBlockedTasks(FinishTask(System, id, "COMPLETED"))
            IN  /\ SetSystem(S)
                /\ mlast' = MLast("complete_task", "True", S.attempts)
       ELSE /\ UNCHANGED <<agents, mtasks>>
            /\ mlast' = MLast("complete_task", "False", << >>)
    /\ UNCHANGED <<next_agent, next_mtask>>

\* MultiAgentSystem.fail_task
FailTask(id) ==
    /\ IF Finishable(id)
       THEN /\ SetSystem(FinishTask(System, id, "FAILED"))
            /\ mlast' = MLast("fail_task", "True", << >>)
       ELSE /\ UNCHANGED <<agents, mtasks>>
            /\ mlast' = MLast("fail_task", "False", << >>)
    /\ UNCHANGED <<next_agent, next_mtask>>

\* MultiAgentSystem.get_agent_by_role / get_coordinator: None when no agent has
\* the role
GetCoordinator ==
    IF \E a \in DOMAIN agents : agents[a].role = "COORDINATOR"
    THEN CHOOSE a \in DOMAIN agents :
            /\ agents[a].role = "COORDINATOR"
            /\ \A b \in DOMAIN agents : agents[b].role = "COORDINATOR" => a <= b
    ELSE None

\* the ids callers give to add_dependency: tasks created before the task, and,
\* for the second task, an id that names no task
DependencyIds(id) == 1..(id - 1) \cup (IF id = 2 THEN {UnknownMTaskId} ELSE {})

\* MultiAgentSystem.__init__ with _create_coordinator_agent
\* Message.__init__: a fresh id, the time of the call, not read
Message(id, sender_id, receiver_id) ==
    [id |-> id, sender_id |-> sender_id, receiver_id |-> receiver_id,
     timestamp |-> now, read |-> FALSE]

\* agent_id: the sender_id of send_message, the agent_id of get_messages;
\* ret: the id send_message returned (none for the empty string), the ids of
\* the messages get_messages returned, in their order, the id
\* mark_message_as_read found (none for False)
MsgLast(op, agent_id, receiver_id, unread_only, limit, ret) ==
    [op |-> op, agent_id |-> agent_id, receiver_id |-> receiver_id,
     unread_only |-> unread_only, limit |-> limit, ret |-> ret]

CanSendFromAgent(sender_id, receiver_id) == sender_id \in DOMAIN agents

\* the two checks of send_message
CanSend(sender_id, receiver_id) ==
    sender_id \in DOMAIN agents /\ receiver_id \in DOMAIN agents

\* MultiAgentSystem.send_message
SendMessage(sender_id, receiver_id) ==
    /\ Len(messages) < MaxMessages
    /\ IF CanSend(sender_id, receiver_id)
       THEN /\ messages' = Append(messages,
                                  Message(Len(messages) + 1, sender_id, receiver_id))
            /\ msg_last' = MsgLast("send_message", sender_id, receiver_id, FALSE, None,
                                   <<Len(messages) + 1>>)
       ELSE /\ UNCHANGED messages
            /\ msg_last' = MsgLast("send_message", sender_id, receiver_id, FALSE, None,
                                   << >>)

AgentMessagesRead(msgs, agent_id, unread_only) ==
    SelectSeq(msgs, LAMBDA m : m.receiver_id = agent_id)

\* the list comprehension of get_messages
AgentMessages(msgs, agent_id, unread_only) ==
    SelectSeq(msgs, LAMBDA m : m.receiver_id = agent_id /\ (~unread_only \/ ~m.read))

\* list.sort(key=timestamp, reverse=True): the later timestamp first, equal
\* timestamps in the order they had
RECURSIVE SortNewestFirst(_)
SortNewestFirst(msgs) ==
    IF msgs = << >> THEN << >>
    ELSE LET first == CHOOSE i \in 1..Len(msgs) :
                         /\ \A j \in 1..Len(msgs) : msgs[j].timestamp <= msgs[i].timestamp
                         /\ \A j \in 1..(i - 1) : msgs[j].timestamp < msgs[i].timestamp
         IN  <<msgs[first]>> \o
             SortNewestFirst(SubSeq(msgs, 1, first - 1)
                             \o SubSeq(msgs, first + 1, Len(msgs)))

\* limit = None
AnyNumber == -1

\* agent_messages[:limit], for a limit that is not negative
Limited(msgs, limit) ==
    IF limit = AnyNumber \/ limit >= Len(msgs) THEN msgs ELSE SubSeq(msgs, 1, limit)

\* MultiAgentSystem.get_messages
GetMessages(agent_id, unread_only, limit) ==
    LET found == IF agent_id \notin DOMAIN agents THEN << >>
                 ELSE Limited(SortNewestFirst(
                                 AgentMessages(messages, agent_id, unread_only)), limit)
    IN  /\ msg_last' = MsgLast("get_messages", agent_id, None, unread_only, limit,
                               [i \in 1..Len(found) |-> found[i].id])
        /\ UNCHANGED messages

\* MultiAgentSystem.mark_message_as_read
MarkMessageAsRead(message_id) ==
    /\ messages' = [i \in 1..Len(messages) |->
                       IF messages[i].id = message_id
                       THEN [messages[i] EXCEPT !.read = TRUE] ELSE messages[i]]
    /\ msg_last' = MsgLast("mark_message_as_read", None, None, FALSE, None,
                           IF message_id \in 1..Len(messages) THEN <<message_id>>
                           ELSE << >>)

\* the agent ids the message calls are given: those handed out and one more
AgentInputs == 1..(MaxAgents + 1)

\* the message ids mark_message_as_read is given: those sent and one more
MessageInputs == 1..(Len(messages) + 1)

\* the limits get_messages is given: None, or a number
Limits == {AnyNumber} \cup (0..(MaxMessages - 1))

MasInit ==
    /\ agents = (1 :> Agent("COORDINATOR", CoordinatorCapabilities))
    /\ mtasks = << >>
    /\ next_agent = 2
    /\ next_mtask = 1
    /\ mlast = MLast("init", "None", << >>)
    /\ messages = << >>
    /\ msg_last = MsgLast("init", None, None, FALSE, None, << >>)

MasNext ==
    \/ \E r \in InputRoles, caps \in AgentCapabilities : AddAgent(r, caps)
    \/ \E id \in KnownAgentIds : RemoveAgent(id)
    \/ \E req \in RequiredCapabilities : MCreateTask(req, None)
    \/ \E id \in KnownMTaskIds : \E d \in DependencyIds(id) : AddDependency(id, d)
    \/ \E id \in KnownMTaskIds : AssignTaskCall(id)
    \/ \E id \in KnownMTaskIds : CompleteTask(id)
    \/ \E id \in KnownMTaskIds : FailTask(id)

----------------------------------------------------------------------------
(* tool_integration.py *)

\* the names execute_tool is called with
ToolNames == {"tool", "other"}

\* rate_limit=None
NoLimit == -1

RateLimits == {NoLimit} \cup 0..MaxLimit

\* the length of the rate limiter's window, in seconds
Window == 60

\* ToolDefinition.__init__; api_key_env_var is left None
ToolDefinition(cache_ttl, rate_limit, requires_api_key) ==
    [cache_ttl |-> cache_ttl, rate_limit |-> rate_limit,
     requires_api_key |-> requires_api_key, call_count |-> 0]

\* the truth value Python gives tool.rate_limit
Truthy(rate_limit) == rate_limit # NoLimit /\ rate_limit # 0

\* the recorded calls of a tool, [] when the name is not a key yet
History(history, tool_name) ==
    IF tool_name \in DOMAIN history THEN history[tool_name] ELSE << >>

\* RateLimiter.check_rate_limit: the calls it keeps
RecentCalls(history, tool_name) ==
    SelectSeq(History(history, tool_name), LAMBDA t : now - t < Window)

\* RateLimiter.check_rate_limit: what it returns
CheckRateLimit(history, tool_name, limit) == Len(RecentCalls(history, tool_name)) < limit

\* the default of ToolCache.__init__'s max_size
DefaultMaxSize == 1000
DefaultCapacity == 50
DefaultMaxEpisodes == 100

\* the argument dictionaries tools are called with, as the tuple of their items
Args == {<<"a">>, <<"b">>}

\* what a tool's function returns: a value Python takes as false, and one it
\* takes as true
Results == {"", "result"}

\* ttl=None / cache_ttl=None
NoTtl == -1

\* the "expiry" of an entry stored with ttl=None
NoExpiry == -1

\* ToolCache._generate_key: the md5 of the tool name and the sorted JSON of the
\* arguments, one key per name and argument dictionary
GenerateKey(tool_name, args) == <<tool_name, args>>

\* the positions of the dictionary that hold the key (none or one)
Positions(c, key) == {i \in 1..Len(c) : c[i].key = key}

\* the dictionary without the entry at position i
Without(c, i) == SubSeq(c, 1, i - 1) \o SubSeq(c, i + 1, Len(c))

\* self.cache[key] = item: an existing key keeps its place, a new one goes last
Store(c, item) ==
    IF Positions(c, item.key) = {} THEN Append(c, item)
    ELSE [i \in 1..Len(c) |-> IF c[i].key = item.key THEN item ELSE c[i]]

LastPosition(c) == Len(c)

\* min(self.cache.keys(), key=timestamp): the first entry, in dictionary order,
\* among those with the least timestamp
OldestPosition(c) ==
    CHOOSE i \in 1..Len(c) :
        /\ \A j \in 1..Len(c) : c[i].timestamp <= c[j].timestamp
        /\ \A j \in 1..(i - 1) : c[j].timestamp > c[i].timestamp

\* the outcome of ToolCache.get: "hit" with the stored result, "miss" (returns
\* None), or "TypeError" when the comparison of the expiry with the time raises
\* (the expiry stored for ttl=None is None, and None < float is a TypeError)
GetOutcome(c, key) ==
    IF Positions(c, key) = {} THEN "miss"
    ELSE LET item == c[CHOOSE i \in Positions(c, key) : TRUE]
         IN  IF item.expiry = NoExpiry THEN "TypeError"
             ELSE IF item.expiry < now THEN "miss"
             ELSE "hit"

\* the result ToolCache.get returns on a hit
GetResult(c, key) == c[CHOOSE i \in Positions(c, key) : TRUE].result

\* the dictionary after ToolCache.get: an expired entry is deleted
AfterGet(c, key) ==
    IF Positions(c, key) # {} /\ GetOutcome(c, key) = "miss"
    THEN Without(c, CHOOSE i \in Positions(c, key) : TRUE)
    ELSE c

\* the dictionary after ToolCache.set
AfterSet(c, key, result, ttl) ==
    LET stored == Store(c, [key |-> key, result |-> result, timestamp |-> now,
                            expiry |-> IF ttl = NoTtl THEN NoExpiry ELSE now + ttl])
    IN  IF Len(stored) > max_size THEN Without(stored, OldestPosition(stored))
        ELSE stored

CLast(op, key, ret, result) == [op |-> op, key |-> key, ret |-> ret, result |-> result]

\* ToolCache.get
CacheGet(tool_name, args) ==
    LET key == GenerateKey(tool_name, args)
        outcome == GetOutcome(cache, key)
    IN  /\ cache' = AfterGet(cache, key)
        /\ hits' = IF outcome = "hit" THEN hits + 1 ELSE hits
        /\ misses' = IF outcome = "miss" THEN misses + 1 ELSE misses
        /\ clast' = CLast("get", key, outcome,
                          IF outcome = "hit" THEN GetResult(cache, key) ELSE "")
        /\ UNCHANGED max_size

\* ToolCache.set
CacheSet(tool_name, args, result, ttl) ==
    /\ cache' = AfterSet(cache, GenerateKey(tool_name, args), result, ttl)
    /\ clast' = CLast("set", GenerateKey(tool_name, args), "None", result)
    /\ UNCHANGED <<max_size, hits, misses>>

\* ToolCache.clear
CacheClear ==
    /\ cache' = << >>
    /\ hits' = 0
    /\ misses' = 0
    /\ clast' = CLast("clear", <<"", << >>>>, "None", "")
    /\ UNCHANGED max_size

\* ToolCache.__init__(max_size)
CacheInit(size) ==
    /\ cache = << >>
    /\ max_size = size
    /\ hits = 0
    /\ misses = 0
    /\ clast = CLast("init", <<"", << >>>>, "None", "")

\* a dictionary with one key set
Put(dict, key, value) ==
    [k \in DOMAIN dict \cup {key} |-> IF k = key THEN value ELSE dict[k]]

ToolResultSuccess(success, error, cached, result, ran) ==
    [success |-> TRUE, error |-> error, cached |-> cached, result |-> result,
     ran |-> ran]

\* the ToolResult: success, the kind of error, "cached", the result, and whether
\* the call ran the tool's function
ToolResult(success, error, cached, result, ran) ==
    [success |-> success, error |-> error, cached |-> cached, result |-> result,
     ran |-> ran]

\* the truth value Python gives a result
TrueResult(result) == result # ""

\* args["api_key"] = api_key
WithApiKey(args) == Append(args, "api_key")

\* the registry as one value, which execute_tool and execute_tool_chain thread
\* along; results lists what the execute_tool calls returned
Registry ==
    [tools |-> tools, call_history |-> call_history, cache |-> cache,
     hits |-> hits, misses |-> misses, executions |-> executions,
     results |-> << >>]

Return(R, result) == [R EXCEPT !.results = Append(@, result)]

\* execute_tool from "# Execute the tool" on: the try block and its except branch
RunTool(R, tool_name, args, use_cache, api_key, raises, result) ==
    LET tool == R.tools[tool_name]
        passed == IF tool.requires_api_key /\ api_key THEN WithApiKey(args) ELSE args
        ran == [R EXCEPT !.executions =
                   Append(@, [tool |-> tool_name, time |-> now, args |-> args,
                              use_cache |-> use_cache, passed |-> passed,
                              raises |-> raises,
                              result |-> IF raises THEN "" ELSE result])]
    IN  IF raises
        THEN Return(ran, ToolResult(FALSE, "exception", FALSE, "", TRUE))
        ELSE Return(
               [ran EXCEPT
                  !.tools[tool_name].call_count = @ + 1,
                  !.call_history =
                      Put(@, tool_name, Append(History(@, tool_name), now)),
                  !.cache =
                      IF use_cache /\ tool.cache_ttl # NoTtl
                      THEN AfterSet(@, GenerateKey(tool_name, passed), result,
                                    tool.cache_ttl)
                      ELSE @],
               ToolResult(TRUE, "", FALSE, result, TRUE))

\* execute_tool from "# Check cache" on
LookUp(R, tool_name, args, use_cache, api_key, raises, result) ==
    LET tool == R.tools[tool_name]
        key == GenerateKey(tool_name, args)
        outcome == GetOutcome(R.cache, key)
        looked == [R EXCEPT !.cache = AfterGet(@, key),
                            !.hits = IF outcome = "hit" THEN @ + 1 ELSE @,
                            !.misses = IF outcome = "miss" THEN @ + 1 ELSE @]
    IN  IF use_cache /\ tool.cache_ttl # NoTtl
        THEN IF outcome = "hit" /\ TrueResult(GetResult(R.cache, key))
             THEN Return(looked,
                         ToolResult(TRUE, "", TRUE, GetResult(R.cache, key), FALSE))
             ELSE RunTool(looked, tool_name, args, use_cache, api_key, raises, result)
        ELSE RunTool(R, tool_name, args, use_cache, api_key, raises, result)

\* ToolRegistry.execute_tool; api_key says whether the caller gives a key, raises
\* whether the tool's function raises, result what it returns when it does not
ExecuteToolOn(R, tool_name, args, use_cache, api_key, raises, result) ==
    IF tool_name \notin DOMAIN R.tools
    THEN Return(R, ToolResult(FALSE, "not found", FALSE, "", FALSE))
    ELSE LET tool == R.tools[tool_name]
             checked == IF Truthy(tool.rate_limit)
                        THEN [R EXCEPT !.call_history =
                                 Put(@, tool_name, RecentCalls(@, tool_name))]
                        ELSE R
         IN  IF tool.requires_api_key /\ ~api_key
             THEN Return(R, ToolResult(FALSE, "requires an API key", FALSE, "", FALSE))
             ELSE IF /\ Truthy(tool.rate_limit)
                     /\ ~CheckRateLimit(R.call_history, tool_name, tool.rate_limit)
             THEN Return(checked,
                         ToolResult(FALSE, "Rate limit exceeded", FALSE, "", FALSE))
             ELSE LookUp(checked, tool_name, args, use_cache, api_key, raises, result)

\* the execute_tool coroutines that are created
Coroutines == 1..MaxCoroutines

\* a coroutine is "ready" (created, not yet run), "awaiting" (at the await of
\* the tool's function) or "returned"; raises: whether the function will raise
Coroutine(pc, raises, success) == [pc |-> pc, raises |-> raises, success |-> success]

CoroutinesInit == coroutines = [c \in Coroutines |-> Coroutine("ready", FALSE, FALSE)]

\* execute_tool of an asynchronous tool, from its start to the await of
\* tool.function(**args): the tool is looked up, the rate limit is checked, the
\* function is called; without cache (cache_ttl None) and without API key
BeginExecuteTool(c, tool_name, raises) ==
    /\ coroutines[c].pc = "ready"
    /\ IF tool_name \notin DOMAIN tools
       THEN /\ coroutines' = [coroutines EXCEPT ![c] = Coroutine("returned", FALSE, FALSE)]
            /\ UNCHANGED <<call_history, executions>>
       ELSE LET limit == tools[tool_name].rate_limit
            IN  /\ call_history' = IF Truthy(limit)
                                   THEN Put(call_history, tool_name,
                                            RecentCalls(call_history, tool_name))
                                   ELSE call_history
                /\ IF Truthy(limit) /\ ~CheckRateLimit(call_history, tool_name, limit)
                   THEN /\ coroutines' =
                              [coroutines EXCEPT ![c] = Coroutine("returned", FALSE, FALSE)]
                        /\ UNCHANGED executions
                   ELSE /\ coroutines' =
                              [coroutines EXCEPT ![c] = Coroutine("awaiting", raises, FALSE)]
                        /\ executions' =
                              Append(executions,
                                     [tool |-> tool_name, time |-> now, args |-> <<"a">>,
                                      use_cache |-> FALSE, passed |-> <<"a">>,
                                      raises |-> raises,
                                      result |-> IF raises THEN "" ELSE "result"])
    /\ UNCHANGED <<tools, now, tcalls, tlast, cvars>>

\* execute_tool from the await on: the function has returned or raised; the
\* call is recorded when it has returned
EndExecuteTool(c, tool_name) ==
    /\ coroutines[c].pc = "awaiting"
    /\ IF coroutines[c].raises
       THEN /\ coroutines' = [coroutines EXCEPT ![c] = Coroutine("returned", TRUE, FALSE)]
            /\ UNCHANGED <<tools, call_history>>
       ELSE /\ coroutines' = [coroutines EXCEPT ![c] = Coroutine("returned", FALSE, TRUE)]
            /\ tools' = [tools EXCEPT ![tool_name].call_count = @ + 1]
            /\ call_history' = Put(call_history, tool_name,
                                   Append(History(call_history, tool_name), now))
    /\ UNCHANGED <<now, executions, tcalls, tlast, cvars>>

\* the last call: its steps (one for execute_tool), use_cache, and the results
TLast(op, chain, use_cache, results) ==
    [op |-> op, chain |-> chain, use_cache |-> use_cache, results |-> results]

SetRegistry(R) ==
    /\ tools' = R.tools
    /\ call_history' = R.call_history
    /\ cache' = R.cache
    /\ hits' = R.hits
    /\ misses' = R.misses
    /\ executions' = R.executions

\* ToolRegistry.register_tool, of a name that is not registered yet
RegisterTool(tool_name, cache_ttl, rate_limit, requires_api_key) ==
    /\ tool_name \notin DOMAIN tools
    /\ tools' = Put(tools, tool_name,
                    ToolDefinition(cache_ttl, rate_limit, requires_api_key))
    /\ UNCHANGED <<call_history, now, executions, tcalls, tlast, cvars>>

\* a call of ToolRegistry.execute_tool
ExecuteTool(tool_name, args, use_cache, api_key, raises, result) ==
    /\ tcalls < MaxCalls
    /\ tcalls' = tcalls + 1
    /\ LET R == ExecuteToolOn(Registry, tool_name, args, use_cache, api_key,
                              raises, result)
       IN  /\ SetRegistry(R)
           /\ tlast' = TLast("execute_tool",
                             <<[name |-> tool_name, args |-> args]>>,
                             use_cache, R.results)
    /\ UNCHANGED <<now, max_size, clast>>

WithoutPrevious(args, result) == args

\* args["previous_result"] = results[-1]["result"]
WithPrevious(args, result) == args \o <<"previous_result", result>>

\* the loop of execute_tool_chain from step i on; each step names the tool, its
\* args, and what the tool's function does if it is run
RECURSIVE ChainLoop(_, _, _, _, _)
ChainLoop(R, chain, i, use_cache, api_key) ==
    IF i > Len(chain) THEN R
    ELSE LET step == chain[i]
             args == IF i > 1 /\ R.results[Len(R.results)].success
                     THEN WithPrevious(step.args, R.results[Len(R.results)].result)
                     ELSE step.args
             after == ExecuteToolOn(R, step.name, args, use_cache, api_key,
                                    step.raises, step.result)
         IN  IF ~after.results[Len(after.results)].success THEN after
             ELSE ChainLoop(after, chain, i + 1, use_cache, api_key)

\* ToolRegistry.execute_tool_chain
ExecuteToolChain(chain, use_cache, api_key) ==
    /\ tcalls + Len(chain) <= MaxCalls
    /\ LET R == ChainLoop(Registry, chain, 1, use_cache, api_key)
       IN  /\ SetRegistry(R)
           /\ tcalls' = tcalls + Len(R.results)
           /\ tlast' = TLast("execute_tool_chain",
                             [i \in 1..Len(chain) |->
                                [name |-> chain[i].name, args |-> chain[i].args]],
                             use_cache, R.results)
    /\ UNCHANGED <<now, max_size, clast>>

\* time passes between two calls
Tick ==
    /\ now < MaxTime
    /\ now' = now + TickSeconds
    /\ UNCHANGED <<tools, call_history, executions, tcalls, tlast, cvars>>

\* ToolRegistry.__init__ with RateLimiter.__init__
RegistryInit ==
    /\ tools = [n \in {} |-> ToolDefinition(NoTtl, NoLimit, FALSE)]
    /\ call_history = [n \in {} |-> << >>]
    /\ now = 0
    /\ executions = << >>
    /\ tcalls = 0
    /\ tlast = TLast("init", << >>, FALSE, << >>)

\* ToolRegistry.__init__, whose cache is a ToolCache()
ToolInit == RegistryInit /\ CacheInit(DefaultMaxSize)

\* what the function of a tool does in one call
Outcomes == {<<TRUE, "">>} \cup {<<FALSE, r>> : r \in Results}

\* the cache_ttl tools are registered with
CacheTtls == {NoTtl, Window}

\* tools registered with the given settings and called with the given inputs
RegistryNext(ttls, limits, keys, argss, caching, calls) ==
    \/ \E ttl \in ttls, L \in limits, k \in keys : RegisterTool("tool", ttl, L, k)
    \/ \E n \in ToolNames, args \in argss, use_cache \in caching,
          api_key \in keys, o \in Outcomes :
          tcalls < calls /\ ExecuteTool(n, args, use_cache, api_key, o[1], o[2])
    \/ Tick

\* tools without caching and without an API key, under every rate limit
ToolNext == RegistryNext({NoTtl}, RateLimits, {FALSE}, {<<"a">>}, {TRUE}, MaxCalls)

\* tools with and without caching, rate limit and API key
CachedNext == RegistryNext(CacheTtls, {NoLimit, 1}, BOOLEAN, Args, BOOLEAN, MaxCachedCalls)

\* the steps of the chains: a tool, its args, what its function does
Steps ==
    {[name |-> n, args |-> <<"a">>, raises |-> o[1], result |-> o[2]] :
        n \in ToolNames, o \in Outcomes}

Chains == UNION {[1..n -> Steps] : n \in 0..MaxChain}

\* chains over a tool with or without caching, and a name that is not registered
ChainNext ==
    \/ \E ttl \in CacheTtls, L \in {NoLimit, 1} : RegisterTool("tool", ttl, L, FALSE)
    \/ \E chain \in Chains : ExecuteToolChain(chain, TRUE, FALSE)
    \/ Tick

\* a ToolCache used on its own
CacheNext ==
    /\ tcalls < MaxCalls
    /\ tcalls' = tcalls + 1
    /\ \/ \E n \in ToolNames, args \in Args, r \in Results, ttl \in {NoTtl, TickSeconds} :
             CacheSet(n, args, r, ttl)
       \/ \E n \in ToolNames, args \in Args : CacheGet(n, args)
       \/ CacheClear

----------------------------------------------------------------------------
(* enhanced_memory.py *)

\* what is remembered: a content with its memory_type and source
Contents == {1, 2}

\* the importance given to add, in tenths
Importances == {2, 8}

\* MemoryEntry.__init__
MemoryEntry(importance) ==
    [importance |-> importance, timestamp |-> now, access_count |-> 0]

\* MemoryEntry._generate_id: the md5 of content, timestamp, memory_type and
\* source, one id per content and timestamp
GenerateId(content, timestamp) == <<content, timestamp>>

\* WorkingMemory._calculate_priority:
\* 0.5 * importance + 0.3 * max(0, 1 - age / 86400) + 0.2 * min(1, access_count / 10),
\* kept as an integer: the priority of the code times 864000, with the
\* importance in tenths and the age in seconds
CalculatePriority(entry) ==
    LET age == now - entry.timestamp
        time_factor == IF 3 * age > 259200 THEN 0 ELSE 259200 - 3 * age
        access_factor == IF entry.access_count > 10 THEN 10 ELSE entry.access_count
    IN  43200 * entry.importance + time_factor + 17280 * access_factor

\* the order of two memory ids as strings (the order of the md5 digests, for
\* which the order of content and timestamp stands)
IdAbove(a, b) == a[1] > b[1] \/ (a[1] = b[1] /\ a[2] > b[2])

\* the order of the tuples (priority, memory_id) under sort(reverse=True)
Before(x, y) == x[1] > y[1] \/ (x[1] = y[1] /\ IdAbove(x[2], y[2]))

\* priority_queue.append(item); priority_queue.sort(reverse=True), on a queue
\* that is sorted
Insert(queue, item) ==
    LET ahead == {i \in 1..Len(queue) : Before(queue[i], item)}
    IN  SubSeq(queue, 1, Cardinality(ahead)) \o <<item>>
        \o SubSeq(queue, Cardinality(ahead) + 1, Len(queue))

\* [(p, mid) for p, mid in self.priority_queue if mid != memory_id]
Dropped(queue, memory_id) == SelectSeq(queue, LAMBDA item : item[2] # memory_id)

\* WorkingMemory._update_all_priorities
RECURSIVE UpdateAllPriorities(_, _)
UpdateAllPriorities(mem, ids) ==
    IF ids = {} THEN << >>
    ELSE LET id == CHOOSE x \in ids : TRUE
         IN  Insert(UpdateAllPriorities(mem, ids \ {id}),
                    <<CalculatePriority(mem[id]), id>>)

\* a dictionary without a key
Del(dict, key) == [k \in DOMAIN dict \ {key} |-> dict[k]]

\* no memory id: get found nothing, or the call returns nothing
NoMemory == <<0, 0>>

\* queued: the priority add has put into the queue
XLast(op, ret) == [op |-> op, ret |-> ret, queued |-> 0]

\* WorkingMemory.add with _evict_lowest_priority
Add(content, importance) ==
    LET id == GenerateId(content, now)
        stored == Put(memories, id, MemoryEntry(importance))
        queued == Insert(priority_queue, <<CalculatePriority(stored[id]), id>>)
        lowest == queued[Len(queued)][2]
    IN  /\ IF Cardinality(DOMAIN stored) > capacity
           THEN /\ priority_queue' = SubSeq(queued, 1, Len(queued) - 1)
                /\ memories' = IF lowest \in DOMAIN stored THEN Del(stored, lowest)
                               ELSE stored
           ELSE /\ priority_queue' = queued
                /\ memories' = stored
        /\ xlast' = [XLast("add", id) EXCEPT !.queued = CalculatePriority(stored[id])]
        /\ UNCHANGED capacity

\* WorkingMemory.get with MemoryEntry.access and _update_priority
Get(memory_id) ==
    /\ IF memory_id \in DOMAIN memories
       THEN LET accessed == [memories EXCEPT ![memory_id].access_count = @ + 1]
            IN  /\ memories' = accessed
                /\ priority_queue' =
                      Insert(Dropped(priority_queue, memory_id),
                             <<CalculatePriority(accessed[memory_id]), memory_id>>)
                /\ xlast' = XLast("get", memory_id)
       ELSE /\ UNCHANGED <<memories, priority_queue>>
            /\ xlast' = XLast("get", NoMemory)
    /\ UNCHANGED capacity

\* WorkingMemory.get_all(None)
GetAll ==
    LET accessed == [id \in DOMAIN memories |->
                        [memories[id] EXCEPT !.access_count = @ + 1]]
    IN  /\ memories' = accessed
        /\ priority_queue' = UpdateAllPriorities(accessed, DOMAIN accessed)
        /\ xlast' = XLast("get_all", NoMemory)
        /\ UNCHANGED capacity

\* WorkingMemory.remove
Remove(memory_id) ==
    /\ IF memory_id \in DOMAIN memories
       THEN /\ memories' = Del(memories, memory_id)
            /\ priority_queue' = Dropped(priority_queue, memory_id)
            /\ xlast' = XLast("remove", memory_id)
       ELSE /\ UNCHANGED <<memories, priority_queue>>
            /\ xlast' = XLast("remove", NoMemory)
    /\ UNCHANGED capacity

\* WorkingMemory.clear
Clear ==
    /\ memories' = [id \in {} |-> MemoryEntry(0)]
    /\ priority_queue' = << >>
    /\ xlast' = XLast("clear", NoMemory)
    /\ UNCHANGED capacity

\* WorkingMemory.__init__(capacity)
WorkingInit(size) ==
    /\ memories = [id \in {} |-> MemoryEntry(0)]
    /\ priority_queue = << >>
    /\ capacity = size

\* the ids get and remove are called with: those of the memories, and those that
\* add has returned
MemoryIds == DOMAIN memories \cup {priority_queue[i][2] : i \in 1..Len(priority_queue)}

WorkingNext ==
    /\ mem_calls < MaxMemoryCalls
    /\ mem_calls' = mem_calls + 1
    /\ \/ \E c \in Contents, i \in Importances : Add(c, i)
       \/ \E id \in MemoryIds : Get(id)
       \/ GetAll
       \/ \E id \in MemoryIds : Remove(id)
       \/ Clear

\* current_episode = None, and episode_id = None
NoEpisode == -1

\* the episode id of start_episode: "episode_" with int(timestamp) and
\* hash(str(timestamp)), one id per timestamp
EpisodeId(timestamp) == timestamp

\* the dictionary start_episode creates
Episode(timestamp) ==
    [id |-> EpisodeId(timestamp), start_time |-> timestamp, end_time |-> NoEpisode,
     events |-> 0]

EpisodeIds(eps) == {eps[i].id : i \in 1..Len(eps)}

\* the position of a key of the dictionary
EpisodePosition(eps, id) == CHOOSE i \in 1..Len(eps) : eps[i].id = id

\* self.episodes[episode_id] = {...}: a key of the dictionary keeps its place
SetEpisode(eps, episode) ==
    IF episode.id \in EpisodeIds(eps)
    THEN [eps EXCEPT ![EpisodePosition(eps, episode.id)] = episode]
    ELSE Append(eps, episode)

\* the key the dictionary got last
NewestEpisode(eps) == Len(eps)

\* min(self.episodes.keys(), key=start_time): the first key of the least
\* start_time
OldestEpisode(eps) ==
    CHOOSE i \in 1..Len(eps) :
        /\ \A j \in 1..Len(eps) : eps[i].start_time <= eps[j].start_time
        /\ \A j \in 1..(i - 1) : eps[j].start_time > eps[i].start_time

\* EpisodicMemory._remove_oldest_episode
RemoveOldestEpisode(eps) ==
    IF eps = << >> THEN eps ELSE Without(eps, OldestEpisode(eps))

\* the episodes after start_episode
Started_Episodes(eps, limit) ==
    LET created == SetEpisode(eps, Episode(now))
    IN  IF Len(created) > limit THEN RemoveOldestEpisode(created) ELSE created

\* EpisodicMemory.start_episode
StartEpisode ==
    /\ episodes' = Started_Episodes(episodes, max_episodes)
    /\ current_episode' = EpisodeId(now)
    /\ xlast' = XLast("start_episode", EpisodeId(now))
    /\ UNCHANGED max_episodes

\* EpisodicMemory.end_episode
EndEpisode(given) ==
    LET episode_id == IF given = NoEpisode THEN current_episode ELSE given
    IN  /\ IF episode_id \in EpisodeIds(episodes)
           THEN /\ episodes' = [episodes EXCEPT
                                   ![EpisodePosition(episodes, episode_id)].end_time = now]
                /\ current_episode' = IF episode_id = current_episode THEN NoEpisode
                                      ELSE current_episode
           ELSE UNCHANGED <<episodes, current_episode>>
        /\ xlast' = XLast("end_episode", NoEpisode)
        /\ UNCHANGED max_episodes

\* EpisodicMemory.add_event, which starts an episode when there is none
AddEvent(given) ==
    LET chosen == IF given = NoEpisode THEN current_episode ELSE given
        starts == chosen = NoEpisode
        episode_id == IF starts THEN EpisodeId(now) ELSE chosen
        eps == IF starts THEN Started_Episodes(episodes, max_episodes) ELSE episodes
        found == episode_id \in EpisodeIds(eps)
    IN  /\ episodes' = IF found
                       THEN [eps EXCEPT ![EpisodePosition(eps, episode_id)].events = @ + 1]
                       ELSE eps
        /\ current_episode' = IF starts THEN episode_id ELSE current_episode
        /\ xlast' = [op |-> "add_event", ret |-> IF found THEN now ELSE NoEpisode,
                     started |-> starts]
        /\ UNCHANGED max_episodes

\* EpisodicMemory.__init__(max_episodes)
EpisodicInit(limit) ==
    /\ episodes = << >>
    /\ current_episode = NoEpisode
    /\ max_episodes = limit

\* the episode ids the calls are given: None, those of the episodes, and the
\* current one, which may be stored no more
GivenEpisodes == {NoEpisode, current_episode} \cup EpisodeIds(episodes)

EpisodicNext ==
    /\ mem_calls < MaxEpisodeCalls
    /\ mem_calls' = mem_calls + 1
    /\ \/ StartEpisode
       \/ \E id \in GivenEpisodes : EndEpisode(id)
       \/ \E id \in GivenEpisodes : AddEvent(id)

\* WorkingMemory() and EpisodicMemory(), as EnhancedMemorySystem makes them
MemoryInit ==
    /\ WorkingInit(DefaultCapacity)
    /\ EpisodicInit(DefaultMaxEpisodes)
    /\ mem_calls = 0
    /\ xlast = XLast("", NoMemory)

----------------------------------------------------------------------------
(* agent_coordinator.py *)

\* the result_key of the five task configurations of analyze_script
ResultKeys == {"analysis", "security", "categorization", "documentation", "optimization"}

\* timeout = 300, in seconds
Timeout == 300

\* LongTermMemory._auto_save saves when more than 60 seconds have passed
SaveSeconds == 60

\* EnhancedMemorySystem(working_memory_capacity=100, ..., max_episodes=50)
CoordinatorCapacity == 100

CoordinatorMaxEpisodes == 50

\* importance=0.9 of the script in working memory, in tenths
ScriptImportance == 9

\* last_save_time = 0, the epoch: more than 60 seconds before every time.time()
NeverSaved == -1

\* await asyncio.sleep(1) gives the event loop the control; the coroutine runs
\* again after these many seconds
MinSleep == 100

MaxSleep == 200

SleepSeconds == {MinSleep, MaxSleep}

\* memory_storage_path: None, the path of a file in a directory that can be
\* made, or the path of a directory (as ai/main.py passes it, after makedirs)
StoragePaths == {"None", "file", "directory"}

\* task.error of a failed task
TaskErrors == {"", "error"}

\* what the coordinator reads of a Task
AnalysisTask(status, error) == [status |-> status, error |-> error]

\* task and task.status in [TaskStatus.COMPLETED, TaskStatus.FAILED]
Finished(tasks, task_id) ==
    task_id \in DOMAIN tasks /\ tasks[task_id].status \in {"COMPLETED", "FAILED"}

\* all(... for task in tasks_status.values())
AllFinished(tasks, ids) == \A task_id \in ids : Finished(tasks, task_id)

\* results[result_key] = task.result
TaskResult(key) == [error |-> FALSE, value |-> <<key, "result">>]

\* results[result_key] = {"error": ...}
ErrorEntry(message) == [error |-> TRUE, value |-> message]

\* the entry of one task configuration in the results
ResultOf(tasks, ids, key, elapsed) ==
    IF key \notin ids THEN ErrorEntry(<<"Task creation failed">>)
    ELSE IF key \in DOMAIN tasks /\ tasks[key].status = "COMPLETED" THEN TaskResult(key)
    ELSE LET status_str == IF key \in DOMAIN tasks THEN tasks[key].status ELSE "UNKNOWN"
             suffix == IF key \in DOMAIN tasks /\ tasks[key].status = "FAILED"
                          /\ tasks[key].error # ""
                       THEN <<tasks[key].error>>
                       ELSE IF elapsed >= Timeout /\ ~Finished(tasks, key)
                       THEN <<"(timed out)">>
                       ELSE << >>
         IN  ErrorEntry(<<key, status_str>> \o suffix)

\* no results yet
NoResults == [key \in {} |-> ErrorEntry(<< >>)]

\* LongTermMemory._auto_save: storage_path and time.time() - last_save_time > 60
SaveDue(memory) ==
    /\ memory.storage_path # "None"
    /\ memory.last_save_time = NeverSaved \/ now - memory.last_save_time > SaveSeconds

\* LongTermMemory.save raises: open(self.storage_path, 'w') of a directory
SaveRaises(memory) == memory.storage_path = "directory"

\* LongTermMemory.add up to its return or to the exception of save
LongTermAdd(memory) ==
    LET added == [memory EXCEPT !.memories = @ + 1]
    IN  IF ~SaveDue(memory) THEN added
        ELSE IF SaveRaises(memory) THEN added
        ELSE [added EXCEPT !.saved = added.memories, !.last_save_time = now]

\* EnhancedMemorySystem.start_new_episode: end_episode of the current episode,
\* then start_episode
NewEpisodes ==
    LET ended == IF current_episode # NoEpisode /\ current_episode \in EpisodeIds(episodes)
                 THEN [episodes EXCEPT
                          ![EpisodePosition(episodes, current_episode)].end_time = now]
                 ELSE episodes
    IN  Started_Episodes(ended, max_episodes)

\* AgentCoordinator.__init__: the memory system with its "Initialization"
\* episode, no analysis under way
CoordinatorInit(path) ==
    /\ coordinator = [pc |-> "idle", ids |-> {}, start_time |-> 0, polled |-> FALSE,
                      results |-> NoResults]
    /\ analysis_tasks = [key \in {} |-> AnalysisTask("PENDING", "")]
    /\ long_term = [storage_path |-> path, memories |-> 0, saved |-> 0,
                    last_save_time |-> NeverSaved]

\* analyze_script up to its loop: the episode, the script in working memory,
\* create_task for each configuration (created: those it did not raise for),
\* start_time
AnalyzeScript(created) ==
    LET id == GenerateId(1, now)
        stored == Put(memories, id, MemoryEntry(ScriptImportance))
        queued == Insert(priority_queue, <<CalculatePriority(stored[id]), id>>)
        lowest == queued[Len(queued)][2]
    IN  /\ coordinator.pc = "idle"
        /\ episodes' = NewEpisodes
        /\ current_episode' = EpisodeId(now)
        /\ IF Cardinality(DOMAIN stored) > capacity
           THEN /\ priority_queue' = SubSeq(queued, 1, Len(queued) - 1)
                /\ memories' = IF lowest \in DOMAIN stored THEN Del(stored, lowest)
                               ELSE stored
           ELSE /\ priority_queue' = queued
                /\ memories' = stored
        /\ xlast' = [XLast("add", id) EXCEPT !.queued = CalculatePriority(stored[id])]
        /\ analysis_tasks' = [key \in created |-> AnalysisTask("PENDING", "")]
        /\ coordinator' = [pc |-> IF created = {} THEN "collect" ELSE "poll",
                           ids |-> created, start_time |-> now, polled |-> FALSE,
                           results |-> NoResults]
        /\ UNCHANGED <<capacity, max_episodes, mem_calls, long_term, now>>

\* one test of the while condition and of the tasks' statuses; polled: the
\* test found every task finished
Poll ==
    /\ coordinator.pc = "poll"
    /\ coordinator' =
          [coordinator EXCEPT
              !.pc = IF now - coordinator.start_time < Timeout
                     THEN IF AllFinished(analysis_tasks, coordinator.ids) THEN "collect"
                          ELSE "sleep"
                     ELSE "collect",
              !.polled = IF now - coordinator.start_time < Timeout
                         THEN AllFinished(analysis_tasks, coordinator.ids)
                         ELSE @]
    /\ UNCHANGED <<analysis_tasks, long_term, xvars, now>>

\* await asyncio.sleep(1) returns
Sleep(seconds) ==
    /\ coordinator.pc = "sleep"
    /\ now' = now + seconds
    /\ coordinator' = [coordinator EXCEPT !.pc = "poll"]
    /\ UNCHANGED <<analysis_tasks, long_term, xvars>>

\* while the coordinator sleeps an agent completes a task or fails at it
Work(key, status, error) ==
    /\ coordinator.pc = "sleep"
    /\ key \in DOMAIN analysis_tasks
    /\ analysis_tasks[key].status = "PENDING"
    /\ status = "COMPLETED" => error = ""
    /\ analysis_tasks' = [analysis_tasks EXCEPT ![key] = AnalysisTask(status, error)]
    /\ UNCHANGED <<coordinator, long_term, xvars, now>>

\* analyze_script after its loop: the results, add_to_long_term_memory, whose
\* exception ends the call, add_event and the return
CollectResults ==
    LET results == [key \in ResultKeys |->
                       ResultOf(analysis_tasks, coordinator.ids, key,
                                now - coordinator.start_time)]
        raises == SaveDue(long_term) /\ SaveRaises(long_term)
        found == current_episode \in EpisodeIds(episodes)
    IN  /\ coordinator.pc = "collect"
        /\ long_term' = LongTermAdd(long_term)
        /\ IF raises
           THEN /\ coordinator' = [coordinator EXCEPT !.pc = "raised"]
                /\ UNCHANGED <<episodes, xlast>>
           ELSE /\ coordinator' = [coordinator EXCEPT !.pc = "returned",
                                                      !.results = results]
                /\ episodes' =
                      IF found
                      THEN [episodes EXCEPT
                               ![EpisodePosition(episodes, current_episode)].events = @ + 1]
                      ELSE episodes
                /\ xlast' = [op |-> "add_event",
                             ret |-> IF found THEN now ELSE NoEpisode,
                             started |-> FALSE]
        /\ UNCHANGED <<analysis_tasks, wvars, current_episode, max_episodes, mem_calls, now>>

----------------------------------------------------------------------------
(* main.py *)

\* a text is a sequence of tokens: names, values, "=" and the line feed
LineFeed == "\n"

\* str.splitlines: the text up to each line feed; no line after the last one
RECURSIVE SplitLines(_)
SplitLines(text) ==
    IF text = << >> THEN << >>
    ELSE LET feeds == {i \in 1..Len(text) : text[i] = LineFeed}
             first == CHOOSE i \in feeds : \A j \in feeds : i <= j
         IN  IF feeds = {} THEN <<text>>
             ELSE <<SubSeq(text, 1, first - 1)>>
                  \o SplitLines(SubSeq(text, first + 1, Len(text)))

\* "\n".join(lines)
RECURSIVE JoinLines(_)
JoinLines(lines) ==
    IF lines = << >> THEN << >>
    ELSE IF Len(lines) = 1 THEN lines[1]
    ELSE lines[1] \o <<LineFeed>> \o JoinLines(Tail(lines))

HasEquals(line) == \E i \in 1..Len(line) : line[i] = "="

\* line.split('=', 1)[0]
LineKey(line) ==
    LET first == CHOOSE i \in 1..Len(line) :
                    line[i] = "=" /\ \A j \in 1..(i - 1) : line[j] # "="
    IN  SubSeq(line, 1, first - 1)

\* f"{key}={value}"
NewLine(key, value) == <<key, "=", value>>

AppendAlways(lines, key) == 0

\* mapping.get(key): the index of the last line of the key, 0 when key is not in
\* mapping (the dictionary keeps the last index of a key)
Mapping(lines, key) ==
    LET found == {i \in 1..Len(lines) : HasEquals(lines[i]) /\ LineKey(lines[i]) = <<key>>}
    IN  IF found = {} THEN 0 ELSE CHOOSE i \in found : \A j \in found : j <= i

\* the loop of _update_env_file over updates, a sequence of <<key, value>>; the
\* mapping is the one of the lines read
RECURSIVE UpdateLines(_, _, _)
UpdateLines(lines, read, updates) ==
    IF updates = << >> THEN lines
    ELSE LET key == Head(updates)[1]
             new_line == NewLine(key, Head(updates)[2])
             at == Mapping(read, key)
         IN  UpdateLines(IF at # 0 THEN [lines EXCEPT ![at] = new_line]
                         ELSE Append(lines, new_line),
                         read, Tail(updates))

\* _update_env_file, on a file that can be read and written
UpdateEnvFile(text, updates) ==
    LET lines == SplitLines(text)
    IN  JoinLines(UpdateLines(lines, lines, updates)) \o <<LineFeed>>

\* the default of os.getenv("OPENAI_MODEL", ...)
DefaultModel == "gpt-3.5-turbo"

\* api_key, model: those a /config request gave, those an /analyze request
\* called the API with
ALast(op, status, ret) ==
    [op |-> op, status |-> status, ret |-> ret, api_key |-> "", model |-> ""]

\* what openai.ChatCompletion.create does in one call: it returns a response
\* with a content, it returns a response without one, it raises
ApiOutcomes == {"content", "no content", "raises"}

CountedAlways(outcome) == 1

\* analysis_count += 1 is reached when the call and the reading of the content
\* have not raised
Counted(outcome) == IF outcome = "content" THEN 1 ELSE 0

\* create_app.analyze
Analyze(script, outcome) ==
    /\ IF ~openai_installed THEN
          /\ alast' = ALast("analyze", 500, "OpenAI package not installed")
          /\ UNCHANGED <<analysis_count, analyses_returned>>
       ELSE IF openai_api_key = "" THEN
          /\ alast' = ALast("analyze", 500, "OPENAI_API_KEY not set")
          /\ UNCHANGED <<analysis_count, analyses_returned>>
       ELSE IF script = "" THEN
          /\ alast' = ALast("analyze", 400, "Missing 'script' in request")
          /\ UNCHANGED <<analysis_count, analyses_returned>>
       ELSE
          /\ analysis_count' = analysis_count + Counted(outcome)
          /\ IF outcome = "content"
             THEN /\ alast' = [ALast("analyze", 200, "analysis") EXCEPT
                                 !.model = app_model, !.api_key = openai_api_key]
                  /\ analyses_returned' = analyses_returned + 1
             ELSE /\ alast' = [ALast("analyze", 500, "error") EXCEPT
                                 !.model = app_model, !.api_key = openai_api_key]
                  /\ UNCHANGED analyses_returned
    /\ UNCHANGED <<openai_installed, openai_api_key, app_model, environ, env_exists,
                   env_text>>

\* create_app.stats
Stats ==
    /\ alast' = ALast("stats", 200, analysis_count)
    /\ UNCHANGED <<openai_installed, openai_api_key, app_model, environ, env_exists,
                   env_text, analysis_count, analyses_returned>>

\* create_app.update_config; "" is a key or a model that is not given
UpdateConfig(key, new_model) ==
    LET updates == (IF key # "" THEN <<<<"OPENAI_API_KEY", key>>>> ELSE << >>)
                   \o (IF new_model # "" THEN <<<<"OPENAI_MODEL", new_model>>>> ELSE << >>)
    IN  /\ openai_api_key' = IF key # "" /\ openai_installed THEN key ELSE openai_api_key
        /\ app_model' = IF new_model # "" THEN new_model ELSE app_model
        /\ environ' = [OPENAI_API_KEY |-> IF key # "" THEN key ELSE environ.OPENAI_API_KEY,
                       OPENAI_MODEL |-> IF new_model # "" THEN new_model
                                        ELSE environ.OPENAI_MODEL]
        /\ IF updates # << >>
           THEN /\ env_exists' = TRUE
                /\ env_text' = UpdateEnvFile(IF env_exists THEN env_text ELSE << >>, updates)
           ELSE UNCHANGED <<env_exists, env_text>>
        /\ alast' = [ALast("config", 200, app_model') EXCEPT
                        !.api_key = key, !.model = new_model]
        /\ UNCHANGED <<openai_installed, analysis_count, analyses_returned>>

\* the module is loaded and create_app is called: with or without the openai
\* package, with the environment's key ("" when it is not set) and model
AppInit(installed, key, model, exists, text) ==
    /\ openai_installed = installed
    /\ openai_api_key = (IF installed THEN key ELSE "")
    /\ app_model = (IF model = "" THEN DefaultModel ELSE model)
    /\ environ = [OPENAI_API_KEY |-> key, OPENAI_MODEL |-> model]
    /\ env_exists = exists
    /\ env_text = text
    /\ analysis_count = 0
    /\ analyses_returned = 0
    /\ requests = 0
    /\ alast = ALast("init", 0, 0)

ServicesInit ==
    /\ AppInit(TRUE, "", "", FALSE, << >>)
    /\ CoroutinesInit
    /\ CoordinatorInit("None")

\* the lines an env file holds
EnvLines ==
    {<<"OPENAI_MODEL", "=", "old">>, <<"OTHER", "=", "old">>, <<"OTHER">>, << >>,
     <<"OTHER", "OPENAI_MODEL", "=", "old", "=">>}

\* the texts of an env file: its lines, with or without the last line feed
EnvTexts ==
    UNION {UNION {{JoinLines(lines), JoinLines(lines) \o <<LineFeed>>} :
                     lines \in [1..n -> EnvLines]} : n \in 0..MaxEnvLines}

\* the keys and models a request gives
Keys == {"", "key"}

Models == {"", "gpt-4"}

AppNext ==
    /\ requests < MaxRequests
    /\ requests' = requests + 1
    /\ \/ \E script \in {"", "script"}, outcome \in ApiOutcomes : Analyze(script, outcome)
       \/ Stats
       \/ \E key \in Keys, new_model \in Models : UpdateConfig(key, new_model)

----------------------------------------------------------------------------
(* Specifications *)

Init ==
    /\ PlannerInit
    /\ driver = [pc |-> "off", started |-> {}]
    /\ MasInit
    /\ ToolInit
    /\ MemoryInit
    /\ plan_file = NoFile
    /\ ServicesInit

PlannerNext ==
    \/ \E s \in {"PENDING", "COMPLETED"}, p \in ParentIds, deps \in SUBSET KnownIds :
          CreateTask(s, p, deps)
    \/ \E n \in 1..Room : \E specs \in SpecLists(n), p \in ParentIds :
          CreateSequentialTasks(specs, p)
    \/ \E n \in 1..Room : \E specs \in SpecLists(n), p \in ParentIds,
             common \in SUBSET KnownIds :
          CreateParallelTasks(specs, p, common)
    \/ \E id \in KnownIds : DeleteTask(id)
    \/ ExecuteNextTasks
    \/ \E id \in KnownIds : MarkTaskCompleted(id)
    \/ \E id \in KnownIds : MarkTaskFailed(id)

Next == PlannerNext /\ UNCHANGED <<driver, mvars, tvars, xvars, plan_file, svars>>

Spec == Init /\ [][Next]_vars

\* the graph alone: building it, deleting from it, asking for its critical path
PathNext ==
    /\ \/ \E p \in ParentIds, deps \in SUBSET KnownIds : CreateTask("PENDING", p, deps)
       \/ \E id \in KnownIds : DeleteTask(id)
       \/ GetCriticalPath
    /\ UNCHANGED <<driver, mvars, tvars, xvars, plan_file, svars>>

PathSpec == Init /\ [][PathNext]_vars

\* a plan that is built, run, saved and loaded
SavedNext ==
    /\ \/ /\ \/ /\ next_id <= MaxSavedTasks
                   /\ \E p \in ParentIds, deps \in SUBSET KnownIds :
                         CreateTask("PENDING", p, deps)
             \/ \E id \in KnownIds : DeleteTask(id)
             \/ ExecuteNextTasks
             \/ \E id \in KnownIds : MarkTaskCompleted(id)
             \/ \E id \in KnownIds : MarkTaskFailed(id)
          /\ UNCHANGED plan_file
       \/ ~plan_file.written /\ SavePlan
       \/ LoadPlan
    /\ UNCHANGED <<driver, mvars, tvars, xvars, svars>>

SavedSpec == Init /\ [][SavedNext]_vars

MasSpecNext == MasNext /\ UNCHANGED <<messages, msg_last, pvars, tvars, xvars, plan_file, svars>>

\* the agents of a system sending, reading and marking messages, while agents
\* join and leave and time passes
MessageNext ==
    /\ \/ /\ \/ \E caps \in AgentCapabilities : AddAgent("ANALYST", caps)
             \/ \E id \in KnownAgentIds : RemoveAgent(id)
          /\ UNCHANGED <<messages, msg_last, now>>
       \/ /\ \/ \E s \in AgentInputs, r \in AgentInputs : SendMessage(s, r)
             \/ \E id \in AgentInputs, u \in BOOLEAN, limit \in Limits :
                   GetMessages(id, u, limit)
             \/ \E id \in MessageInputs : MarkMessageAsRead(id)
          /\ UNCHANGED <<agents, mtasks, next_agent, next_mtask, mlast, now>>
       \/ /\ now < MaxMessageTime
          /\ Tick
          /\ UNCHANGED mvars
    /\ UNCHANGED <<pvars, tools, call_history, executions, tcalls, tlast, cvars, xvars,
                   plan_file, svars>>

MessageSpec == Init /\ [][MessageNext]_vars

MasSpec == Init /\ [][MasSpecNext]_vars

ToolSpecNext == ToolNext /\ UNCHANGED <<pvars, mvars, xvars, plan_file, svars>>

ToolSpec == Init /\ [][ToolSpecNext]_vars

CachedSpecNext == CachedNext /\ UNCHANGED <<pvars, mvars, xvars, plan_file, svars>>

CachedSpec == Init /\ [][CachedSpecNext]_vars

ChainSpecNext == ChainNext /\ UNCHANGED <<pvars, mvars, xvars, plan_file, svars>>

ChainSpec == Init /\ [][ChainSpecNext]_vars

\* a ToolCache(max_size) used on its own, while time passes
CacheSpecInit ==
    /\ PlannerInit
    /\ driver = [pc |-> "off", started |-> {}]
    /\ MasInit
    /\ RegistryInit
    /\ \E size \in 0..MaxCacheSize : CacheInit(size)
    /\ MemoryInit
    /\ plan_file = NoFile
    /\ ServicesInit

CacheSpecNext ==
    /\ \/ CacheNext /\ UNCHANGED <<tools, call_history, now, executions, tlast>>
       \/ Tick
    /\ UNCHANGED <<pvars, mvars, xvars, plan_file, svars>>

CacheSpec == CacheSpecInit /\ [][CacheSpecNext]_vars

\* the application from the loading of the module on, request after request
AppSpecInit ==
    /\ PlannerInit
    /\ driver = [pc |-> "off", started |-> {}]
    /\ MasInit
    /\ ToolInit
    /\ MemoryInit
    /\ plan_file = NoFile
    /\ \E installed \in BOOLEAN, key \in Keys, exists \in BOOLEAN :
          \E text \in (IF exists THEN EnvTexts ELSE {<< >>}) :
             AppInit(installed, key, "", exists, text)
    /\ CoroutinesInit
    /\ CoordinatorInit("None")

AppSpecNext ==
    AppNext /\ UNCHANGED <<pvars, mvars, tvars, xvars, plan_file, coroutines, kvars>>

\* execute_tool coroutines for one asynchronous tool on one event loop: each
\* runs to its await, and from its await to its return, in any order
RaceNext ==
    /\ \/ /\ \E L \in 1..MaxLimit : RegisterTool("tool", NoTtl, L, FALSE)
          /\ UNCHANGED coroutines
       \/ \E c \in Coroutines, raises \in BOOLEAN : BeginExecuteTool(c, "tool", raises)
       \/ \E c \in Coroutines : EndExecuteTool(c, "tool")
       \/ Tick /\ UNCHANGED coroutines
    /\ UNCHANGED <<pvars, mvars, xvars, plan_file, avars, kvars>>

RaceSpec == Init /\ [][RaceNext]_vars

AppSpec == AppSpecInit /\ [][AppSpecNext]_vars

\* an AgentCoordinator from its construction on, through one analyze_script
\* call made some time after it, with the agents at work while it sleeps
CoordinatorSpecInit ==
    /\ PlannerInit
    /\ driver = [pc |-> "off", started |-> {}]
    /\ MasInit
    /\ ToolInit
    /\ WorkingInit(CoordinatorCapacity)
    /\ episodes = <<Episode(0)>>
    /\ current_episode = EpisodeId(0)
    /\ max_episodes = CoordinatorMaxEpisodes
    /\ mem_calls = 0
    /\ xlast = XLast("start_episode", EpisodeId(0))
    /\ plan_file = NoFile
    /\ AppInit(TRUE, "", "", FALSE, << >>)
    /\ CoroutinesInit
    /\ \E path \in StoragePaths : CoordinatorInit(path)

CoordinatorNext ==
    \/ coordinator.pc = "idle" /\ now < TickSeconds /\ Tick /\ UNCHANGED <<xvars, kvars>>
    \/ now > 0 /\ \E created \in SUBSET ResultKeys : AnalyzeScript(created)
    \/ Poll
    \/ \E seconds \in SleepSeconds : Sleep(seconds)
    \/ \E key \in ResultKeys, status \in {"COMPLETED", "FAILED"},
          error \in TaskErrors : Work(key, status, error)
    \/ CollectResults

CoordinatorSpecNext ==
    /\ CoordinatorNext
    /\ UNCHANGED <<pvars, mvars, tools, call_history, executions, tcalls, tlast, cvars,
                   plan_file, avars, coroutines>>

\* the event loop runs a coroutine that can run: analyze_script goes on from
\* each of its positions
CoordinatorRuns ==
    /\ Poll \/ (\E seconds \in SleepSeconds : Sleep(seconds)) \/ CollectResults
    /\ UNCHANGED <<pvars, mvars, tools, call_history, executions, tcalls, tlast, cvars,
                   plan_file, avars, coroutines>>

CoordinatorSpec ==
    CoordinatorSpecInit /\ [][CoordinatorSpecNext]_vars /\ WF_vars(CoordinatorRuns)

\* a WorkingMemory(capacity) used on its own, while time passes
WorkingSpecInit ==
    /\ PlannerInit
    /\ driver = [pc |-> "off", started |-> {}]
    /\ MasInit
    /\ ToolInit
    /\ \E size \in 0..MaxCapacity : WorkingInit(size)
    /\ EpisodicInit(DefaultMaxEpisodes)
    /\ mem_calls = 0
    /\ xlast = XLast("", NoMemory)
    /\ plan_file = NoFile
    /\ ServicesInit

WorkingSpecNext ==
    /\ \/ WorkingNext /\ UNCHANGED <<now, evars>>
       \/ Tick /\ UNCHANGED xvars
    /\ UNCHANGED <<pvars, mvars, tools, call_history, executions, tcalls, tlast, cvars,
                   plan_file, svars>>

WorkingSpec == WorkingSpecInit /\ [][WorkingSpecNext]_vars

\* an EpisodicMemory(max_episodes) used on its own, while time passes
EpisodicSpecInit ==
    /\ PlannerInit
    /\ driver = [pc |-> "off", started |-> {}]
    /\ MasInit
    /\ ToolInit
    /\ WorkingInit(DefaultCapacity)
    /\ \E limit \in 0..MaxEpisodes : EpisodicInit(limit)
    /\ mem_calls = 0
    /\ xlast = XLast("", NoMemory)
    /\ plan_file = NoFile
    /\ ServicesInit

EpisodicSpecNext ==
    /\ \/ EpisodicNext /\ UNCHANGED <<now, wvars>>
       \/ Tick /\ UNCHANGED xvars
    /\ UNCHANGED <<pvars, mvars, tools, call_history, executions, tcalls, tlast, cvars,
                   plan_file, svars>>

EpisodicSpec == EpisodicSpecInit /\ [][EpisodicSpecNext]_vars

----------------------------------------------------------------------------
(* A run of a plan: the plan is built from PENDING tasks whose dependencies *)
(* and parents are tasks of the plan, then a driver keeps calling           *)
(* execute_next_tasks and mark_task_completed on every task it started.     *)

RunInit ==
    /\ PlannerInit
    /\ MasInit
    /\ ToolInit
    /\ MemoryInit
    /\ plan_file = NoFile
    /\ ServicesInit
    /\ driver = [pc |-> "build", started |-> {}]

RunBuild ==
    /\ driver.pc = "build"
    /\ \E p \in {None} \cup DOMAIN ptask, deps \in SUBSET DOMAIN ptask :
          CreateTask("PENDING", p, deps)
    /\ UNCHANGED driver

RunStart ==
    /\ driver.pc = "build"
    /\ driver' = [driver EXCEPT !.pc = "execute"]
    /\ UNCHANGED <<graph_nodes, graph_edges, graph_pc, ptask, next_id, seq_pairs,
                   par_created, plast, critical_path>>

DriverExecute ==
    /\ driver.pc = "execute"
    /\ ExecuteNextTasks
    /\ driver' = [pc |-> IF plast'.started = {} THEN "execute" ELSE "mark",
                  started |-> plast'.started]

DriverMark ==
    /\ driver.pc = "mark"
    /\ \E t \in driver.started :
          /\ MarkTaskCompleted(t)
          /\ driver' = [pc |-> IF driver.started = {t} THEN "execute" ELSE "mark",
                        started |-> driver.started \ {t}]

RunNext ==
    /\ RunBuild \/ RunStart \/ DriverExecute \/ DriverMark
    /\ UNCHANGED <<mvars, tvars, xvars, plan_file, svars>>

\* the driver is a loop that keeps running: a step it can take is taken
RunSpec == RunInit /\ [][RunNext]_vars /\ WF_vars(RunNext)

----------------------------------------------------------------------------
(* Properties of the planner *)

\* a step of execute_next_tasks in which get_next_tasks returned
ExecuteStep == plast'.op = "execute_next_tasks" /\ plast'.ret = "started"

Started(t) ==
    /\ t \in DOMAIN ptask /\ ptask[t].status = "PENDING"
    /\ t \in DOMAIN ptask' /\ ptask'[t].status = "IN_PROGRESS"

\* every task listed in t's dependencies is COMPLETED
DependenciesCompleted(t) ==
    \A d \in ptask[t].dependencies :
        d \in DOMAIN ptask /\ ptask[d].status = "COMPLETED"

\* no task of the plan that t's dependencies list is short of COMPLETED
NoDependencyOpen(t) ==
    \A d \in ptask[t].dependencies \cap DOMAIN ptask :
        ptask[d].status = "COMPLETED"

\* C1: execute_next_tasks moves a task from PENDING to IN_PROGRESS only if every
\* task listed in its dependencies is COMPLETED at that moment; get_next_tasks
\* returns exactly the PENDING tasks with that property, and the tasks it does
\* not return keep their status.
C1_StartsExactlyDependencyFree ==
    [][ExecuteStep =>
         /\ \A t \in DOMAIN ptask : Started(t) => NoDependencyOpen(t)
         /\ plast'.started =
              {t \in DOMAIN ptask : ptask[t].status = "PENDING" /\ NoDependencyOpen(t)}
         /\ \A t \in DOMAIN ptask \ plast'.started :
              ptask'[t].status = ptask[t].status]_vars

\* C3: for the consecutive tasks t(i), t(i+1) of one create_sequential_tasks
\* call, execute_next_tasks does not start t(i+1) before t(i) is COMPLETED.
C3_SequentialOrder ==
    [][\A pair \in seq_pairs :
         Started(pair[2]) =>
            pair[1] \in DOMAIN ptask /\ ptask[pair[1]].status = "COMPLETED"]_vars

\* C3, amended: execute_next_tasks does not start t(i+1) while t(i) is a task
\* of the plan that is not COMPLETED; once t(i) has been deleted from the plan,
\* t(i+1) no longer waits for it.
C3_SequentialOrderWhileInPlan ==
    [][\A pair \in seq_pairs :
         Started(pair[2]) /\ pair[1] \in DOMAIN ptask =>
            ptask[pair[1]].status = "COMPLETED"]_vars

\* execute_next_tasks has just started t(i+1) of a sequence whose t(i), still in
\* the plan, is COMPLETED
C3_Witness ==
    /\ plast.op = "execute_next_tasks"
    /\ \E pair \in seq_pairs :
          /\ pair[2] \in plast.started
          /\ pair[1] \in DOMAIN ptask
          /\ ptask[pair[1]].status = "COMPLETED"

\* C4: the tasks returned by one create_parallel_tasks call do not depend on one
\* another, and once the dependencies of each (its own and the common ones) are
\* all COMPLETED, one execute_next_tasks call starts every one that is PENDING.
C4_ParallelStartTogether ==
    [][/\ \A group \in par_created : \A t \in group \cap DOMAIN ptask :
             ptask[t].dependencies \cap group = {}
       /\ ExecuteStep =>
             \A group \in par_created : \A t \in group \cap DOMAIN ptask :
                ptask[t].status = "PENDING" /\ DependenciesCompleted(t)
                   => ptask'[t].status = "IN_PROGRESS"]_vars

\* C5: get_critical_path returns a longest root-to-leaf path: no path of the
\* graph from a root to a leaf has more tasks than the returned one.
C5_CriticalPathIsLongest ==
    plast.op = "get_critical_path" /\ plast.ret = "path" =>
        \A r \in GetRootTasks, l \in GetLeafTasks :
            \A p \in Paths(r, l) : Len(p) <= Len(critical_path)

----------------------------------------------------------------------------
(* Properties of the multi-agent system *)

\* a dependency of task t that is a task of the system and is not COMPLETED
IncompleteDependency(t) ==
    \E d \in mtasks[t].dependencies \cap DOMAIN mtasks : mtasks[d].status # "COMPLETED"

\* the _assign_task calls of the last operation that gave a task to an agent
Assignments == {i \in 1..Len(mlast.attempts) : mlast.attempts[i].agent # None}

\* C6: whenever MultiAgentSystem assigns a task to an agent (in create_task or
\* when a task is unblocked), that agent holds every capability the task
\* requires and had no current task at that moment.
C6_AssignedAgentFits ==
    \A i \in Assignments :
        LET e == mlast.attempts[i]
        IN  /\ e.agent \in DOMAIN agents
            /\ mtasks[e.task].required_capabilities
                  \subseteq agents[e.agent].capabilities
            /\ e.current = None

\* create_task gave a task to an added agent, complete_task gave an unblocked task
C6_Witness ==
    \/ /\ mlast.op = "create_task"
       /\ \E i \in Assignments : mlast.attempts[i].agent # 1
    \/ /\ mlast.op = "complete_task"
       /\ Assignments # {}

\* C7: MultiAgentSystem never assigns a task while one of its dependencies that
\* is in the system is not COMPLETED: the assignment attempt on such a task (one
\* that has no agent yet) sets it to BLOCKED, leaves it unassigned and returns
\* False.
C7_NoAssignmentBeforeDependencies ==
    /\ \A i \in Assignments : ~IncompleteDependency(mlast.attempts[i].task)
    /\ \A i \in 1..Len(mlast.attempts) :
          LET e == mlast.attempts[i]
          IN  IncompleteDependency(e.task) /\ e.before = None =>
                 /\ e.agent = None
                 /\ mlast.op = "_assign_task" => mlast.ret = "False"
                 /\ mtasks[e.task].assigned_agent_id = None
                 /\ mtasks[e.task].status = "BLOCKED"

\* a call of _assign_task on an unassigned task with an open dependency, while an
\* agent that could take the task is free
C7_Witness ==
    /\ mlast.op = "_assign_task"
    /\ mlast.ret = "False"
    /\ LET t == mlast.attempts[1].task
       IN  /\ IncompleteDependency(t)
           /\ mtasks[t].status = "BLOCKED"
           /\ AvailableAgents(System, t) # {}

Attempted(log, t) == \E i \in 1..Len(log) : log[i].task = t

\* C8: when complete_task completes a task, every BLOCKED task whose (existing)
\* dependencies are now all COMPLETED is set back to PENDING and an assignment
\* attempt is made for it in the same call; BLOCKED tasks that still have an
\* incomplete dependency stay BLOCKED.
C8_CompleteUnblocks ==
    [][mlast'.op = "complete_task" /\ mlast'.ret = "True" =>
         \A b \in DOMAIN mtasks :
            mtasks[b].status = "BLOCKED" =>
               IF IncompleteDependency(b)'
               THEN mtasks'[b].status = "BLOCKED" /\ ~Attempted(mlast'.attempts, b)
               ELSE /\ Attempted(mlast'.attempts, b)
                    /\ mtasks'[b].status \in {"PENDING", "ASSIGNED"}
                    /\ mtasks'[b].status = "PENDING" =>
                          AvailableAgents(System', b) = {}]_vars

\* complete_task has unblocked one task and left another one BLOCKED
C8_Witness ==
    /\ mlast.op = "complete_task"
    /\ mlast.attempts # << >>
    /\ \E b \in DOMAIN mtasks :
          mtasks[b].status = "BLOCKED" /\ IncompleteDependency(b)

\* C9: remove_agent on an agent whose role is COORDINATOR returns False and
\* removes nothing, so the system always contains the coordinator created at
\* construction and get_coordinator() is never None.
C9_CoordinatorStays ==
    [][/\ 1 \in DOMAIN agents'
       /\ agents'[1].role = "COORDINATOR"
       /\ GetCoordinator' # None
       /\ (/\ mlast'.op = "remove_agent"
           /\ mlast'.agent \in DOMAIN agents
           /\ agents[mlast'.agent].role = "COORDINATOR")
          => /\ mlast'.ret = "False"
             /\ agents' = agents
             /\ mtasks' = mtasks]_vars

\* remove_agent has just been refused for a coordinator, with tasks created,
\* completed and failed
C9_Witness ==
    /\ mlast.op = "remove_agent"
    /\ mlast.agent \in DOMAIN agents
    /\ agents[mlast.agent].role = "COORDINATOR"
    /\ mlast.ret = "False"
    /\ \E t \in DOMAIN mtasks : mtasks[t].status = "COMPLETED"
    /\ \E t \in DOMAIN mtasks : mtasks[t].status = "FAILED"

----------------------------------------------------------------------------
(* Properties of the tool registry *)

\* the executions of a tool's function in the 60 seconds that begin at time t
ExecutionsInWindow(tool_name, t) ==
    {i \in 1..Len(executions) :
        /\ executions[i].tool = tool_name
        /\ t <= executions[i].time
        /\ executions[i].time < t + Window}

\* C10: for a tool registered with a rate_limit L (any integer L >= 0),
\* execute_tool runs the tool's function at most L times within any 60-second
\* window, whether the executions succeed or raise.
C10_AtMostLimitPerWindow ==
    \A n \in DOMAIN tools :
        tools[n].rate_limit # NoLimit =>
           \A t \in 0..MaxTime :
              Cardinality(ExecutionsInWindow(n, t)) <= tools[n].rate_limit

\* the runs of the function, before the call, that a call of execute_tool with
\* the tool, args and use_cache of the last call should be answered from: the
\* function returned, the call used the cache, and the TTL has not elapsed
Answering ==
    {i \in 1..Len(executions) :
        /\ executions[i].tool = tlast'.chain[1].name
        /\ executions[i].args = tlast'.chain[1].args
        /\ executions[i].use_cache
        /\ ~executions[i].raises
        /\ now < executions[i].time + tools[executions[i].tool].cache_ttl}

\* C11: for a tool with cache_ttl set and use_cache true, after a successful
\* execute_tool(name, args), a later execute_tool with the same name and equal
\* args before the TTL elapses returns cached True with the same result and does
\* not run the function again, whatever the result value is.
C11_RepeatedCallIsCached ==
    [][/\ tlast'.op = "execute_tool"
       /\ tcalls' = tcalls + 1
       /\ tlast'.use_cache
       /\ tlast'.chain[1].name \in DOMAIN tools
       /\ tools[tlast'.chain[1].name].cache_ttl # NoTtl
       /\ Answering # {}
       => LET last == CHOOSE i \in Answering : \A j \in Answering : j <= i
          IN  /\ tlast'.results[1].success
              /\ tlast'.results[1].cached
              /\ tlast'.results[1].result = executions[last].result
              /\ executions' = executions]_vars

\* the failures of execute_tool the claim lists
Failures == {"not found", "requires an API key", "Rate limit exceeded", "exception"}

StepsRun(results) == {i \in 1..Len(results) : results[i].ran}

\* the first k steps, counted among those that were run
RunsBefore(results, k) == Cardinality({i \in StepsRun(results) : i <= k})

\* C17: execute_tool_chain runs the steps in list order, gives each step after
\* the first the previous step's result as the argument previous_result, and
\* stops at the first step whose result has success False: no later step's tool
\* is executed and the returned list ends with that failed result.
C17_ChainStopsAtFailure ==
    [][tlast'.op = "execute_tool_chain" /\ tcalls' > tcalls =>
         LET chain == tlast'.chain
             results == tlast'.results
             new == Len(executions') - Len(executions)
         IN  /\ Len(results) <= Len(chain)
             /\ chain # << >> => results # << >>
             /\ \A i \in 1..(Len(results) - 1) : results[i].success
             /\ Len(results) < Len(chain) => ~results[Len(results)].success
             /\ SubSeq(executions', 1, Len(executions)) = executions
             /\ new = Cardinality(StepsRun(results))
             /\ \A i \in StepsRun(results) :
                   LET e == executions'[Len(executions) + RunsBefore(results, i)]
                   IN  /\ e.tool = chain[i].name
                       /\ e.args = IF i = 1 THEN chain[1].args
                                   ELSE chain[i].args \o
                                        <<"previous_result", results[i - 1].result>>]_vars

\* a chain of three steps has stopped at its second step, whose function ran and
\* raised after it was given the first step's result
C17_Witness ==
    /\ tlast.op = "execute_tool_chain"
    /\ Len(tlast.chain) = 3
    /\ Len(tlast.results) = 2
    /\ tlast.results[2].ran

\* C12: ToolCache.get returns the stored result exactly when the entry has not
\* expired: an entry whose expiry time has passed is deleted, counted as a miss
\* and None is returned, and an entry stored with ttl None has no expiry and is
\* returned by every later get.
C12_GetReturnsUnexpired ==
    [][clast'.op = "get" =>
         LET at == Positions(cache, clast'.key)
         IN  \A i \in at :
                IF cache[i].expiry # NoExpiry /\ cache[i].expiry < now
                THEN /\ clast'.ret = "miss"
                     /\ Positions(cache', clast'.key) = {}
                     /\ misses' = misses + 1
                ELSE /\ clast'.ret = "hit"
                     /\ clast'.result = cache[i].result
                     /\ cache' = cache]_vars

----------------------------------------------------------------------------
(* Properties of a plan run *)

AllCompleted == \A t \in DOMAIN ptask : ptask[t].status = "COMPLETED"

\* C2: for a plan of PENDING tasks whose dependencies and parents are tasks of
\* the plan (its graph has no cycle), the driver eventually brings every task to
\* COMPLETED: no task stays PENDING forever.
C2_RunCompletesEveryTask == (driver.pc = "execute") ~> AllCompleted

\* the driver has run a plan of MaxTasks tasks, one waiting for another, to the end
C2_Witness ==
    /\ driver.pc = "execute"
    /\ plast.op = "mark_task_completed"
    /\ Cardinality(DOMAIN ptask) = MaxTasks
    /\ graph_edges # {}
    /\ AllCompleted

\* C18: load_plan applied to a file save_plan has just written restores the
\* plan: the same tasks with the same status, dependencies, parent and
\* subtasks, the same graph edges, and the same get_next_tasks result
C18_LoadRestoresSavedPlan ==
    [][(plast.op = "save_plan" /\ plast.ret = "True" /\ plast'.op = "load_plan") =>
          /\ plast'.ret = "True"
          /\ ptask' = ptask
          /\ graph_edges' = graph_edges
          /\ graph_pc' = graph_pc
          /\ Phantoms' = {}
          /\ GetNextTasks' = GetNextTasks]_vars

\* a step of a call about messages: no agent joins or leaves, no time passes
MessageStep(op) == msg_last'.op = op /\ UNCHANGED <<agents, mlast, now>>

\* C19: send_message appends exactly one message to the message list and
\* returns its id when sender_id and receiver_id are agents of the system;
\* otherwise it returns the empty string and the list is unchanged
C19_SendAppendsOne ==
    [][MessageStep("send_message") =>
          IF msg_last'.agent_id \in DOMAIN agents
             /\ msg_last'.receiver_id \in DOMAIN agents
          THEN /\ Len(messages') = Len(messages) + 1
               /\ SubSeq(messages', 1, Len(messages)) = messages
               /\ LET message == messages'[Len(messages')]
                  IN  /\ msg_last'.ret = <<message.id>>
                      /\ message.sender_id = msg_last'.agent_id
                      /\ message.receiver_id = msg_last'.receiver_id
                      /\ \A i \in 1..Len(messages) : messages[i].id # message.id
          ELSE /\ messages' = messages
               /\ msg_last'.ret = << >>]_vars

C19_Witness ==
    /\ msg_last.op = "send_message"
    /\ msg_last.ret # << >>
    /\ msg_last.agent_id # msg_last.receiver_id
    /\ Len(messages) = MaxMessages

MessageOf(id) == CHOOSE m \in {messages[i] : i \in 1..Len(messages)} : m.id = id

\* C20: get_messages(agent_id) returns only messages whose receiver is that
\* agent, leaves out the messages marked read when unread_only is true, orders
\* them newest first and returns at most limit of them; for an agent that is
\* not in the system it returns the empty list
C20_GetMessagesOfReceiver ==
    [][MessageStep("get_messages") =>
          LET ret == msg_last'.ret
          IN  IF msg_last'.agent_id \notin DOMAIN agents THEN ret = << >>
              ELSE /\ \A i \in 1..Len(ret) :
                         /\ \E k \in 1..Len(messages) : messages[k].id = ret[i]
                         /\ MessageOf(ret[i]).receiver_id = msg_last'.agent_id
                         /\ msg_last'.unread_only => ~MessageOf(ret[i]).read
                   /\ \A i \in 1..Len(ret) : \A j \in (i + 1)..Len(ret) :
                         /\ ret[i] # ret[j]
                         /\ MessageOf(ret[i]).timestamp >= MessageOf(ret[j]).timestamp
                   /\ msg_last'.limit # AnyNumber => Len(ret) <= msg_last'.limit]_vars

C20_Witness ==
    /\ msg_last.op = "get_messages"
    /\ msg_last.unread_only
    /\ msg_last.limit = 1
    /\ Len(msg_last.ret) = 1
    /\ \E i \in 1..Len(messages) :
          /\ messages[i].receiver_id = msg_last.agent_id
          /\ messages[i].read
    /\ \E i \in 1..Len(messages) :
          /\ messages[i].receiver_id = msg_last.agent_id
          /\ ~messages[i].read
          /\ messages[i].timestamp < MessageOf(msg_last.ret[1]).timestamp

----------------------------------------------------------------------------
(* Properties of the memories *)

\* C14: after any sequence of WorkingMemory add, get, get_all, remove and clear
\* calls, the number of stored memories is at most capacity, also when two
\* add calls produce the same memory id
C14_AtMostCapacity == Cardinality(DOMAIN memories) <= capacity

\* the episodes start_episode has before it looks at the limit
EpisodesCreated ==
    EpisodeIds(episodes) \cup {now}

StartStep ==
    \/ xlast'.op = "start_episode" /\ mem_calls' > mem_calls
    \/ xlast'.op = "add_event" /\ mem_calls' > mem_calls /\ xlast'.started

C23_AtMostLimitInFlight ==
    \A n \in DOMAIN tools : \A t \in 0..MaxTime :
        Cardinality({i \in 1..Len(executions) :
                        /\ executions[i].tool = n
                        /\ executions[i].time <= t
                        /\ t - executions[i].time < Window})
           <= tools[n].rate_limit

\* a step of add that has the number of memories above capacity
AddAboveCapacity ==
    /\ xlast'.op = "add"
    /\ mem_calls' > mem_calls
    /\ Cardinality(DOMAIN memories \cup {xlast'.ret}) > capacity

\* the priority a memory is queued with when add looks for the lowest
QueuedPriority(id) ==
    IF id = xlast'.ret THEN xlast'.queued
    ELSE LET queued == {priority_queue[i][1] :
                           i \in {j \in 1..Len(priority_queue) : priority_queue[j][2] = id}}
         IN  CHOOSE p \in queued : \A q \in queued : p <= q

\* C24: when add pushes the number of memories above capacity, exactly one
\* memory is evicted, one whose queued priority is the lowest of all queued
\* entries (possibly the entry just added), and every other memory stays
\* retrievable by get
C24_AddEvictsLowest ==
    [][AddAboveCapacity =>
          LET evicted == (DOMAIN memories \cup {xlast'.ret}) \ DOMAIN memories'
          IN  /\ Cardinality(evicted) = 1
              /\ \A e \in evicted : \A i \in 1..Len(priority_queue') :
                    QueuedPriority(e) <= priority_queue'[i][1]
              /\ \A id \in DOMAIN memories' \ {xlast'.ret} :
                    id \in DOMAIN memories /\ memories'[id] = memories[id]]_vars

----------------------------------------------------------------------------
(* Properties of the application *)

AnalyzeStep == alast'.op = "analyze" /\ requests' > requests

\* C21: the analysis_count /stats reports is the number of /analyze requests
\* that returned an analysis since the module was loaded, and a request that
\* fails leaves the count unchanged
C21_CountsReturnedAnalyses ==
    /\ [](alast.op = "stats" => alast.ret = analyses_returned)
    /\ [][AnalyzeStep =>
            IF alast'.status = 200 THEN analysis_count' = analysis_count + 1
            ELSE analysis_count' = analysis_count]_vars

C21_Witness ==
    /\ alast.op = "stats"
    /\ alast.ret = 1
    /\ requests = 3

ConfigStep ==
    /\ alast'.op = "config"
    /\ requests' > requests
    /\ alast'.api_key # ""
    /\ alast'.model # ""

\* the lines of a text whose key is none of the two /config writes
OtherLines(text) ==
    SelectSeq(SplitLines(text),
              LAMBDA line : ~HasEquals(line)
                            \/ LineKey(line) \notin {<<"OPENAI_MODEL">>, <<"OPENAI_API_KEY">>})

ModelLines(text) ==
    {i \in 1..Len(SplitLines(text)) :
        /\ HasEquals(SplitLines(text)[i])
        /\ LineKey(SplitLines(text)[i]) = <<"OPENAI_MODEL">>}

C25_AnalyzeScriptReturns ==
    /\ [](coordinator.pc # "idle" => <>(coordinator.pc = "returned"))
    /\ [](coordinator.pc = "sleep" =>
             /\ ~coordinator.polled
             /\ now - coordinator.start_time < Timeout)
    /\ [](coordinator.pc = "collect" /\ coordinator.ids # {} =>
             \/ \A key \in coordinator.ids :
                   /\ key \in DOMAIN analysis_tasks
                   /\ analysis_tasks[key].status \in {"COMPLETED", "FAILED"}
             \/ now - coordinator.start_time >= Timeout)
    /\ [](coordinator.pc = "returned" =>
             /\ DOMAIN coordinator.results = ResultKeys
             /\ \A key \in ResultKeys :
                   IF /\ key \in coordinator.ids
                      /\ key \in DOMAIN analysis_tasks
                      /\ analysis_tasks[key].status = "COMPLETED"
                   THEN coordinator.results[key] = [error |-> FALSE,
                                                   value |-> <<key, "result">>]
                   ELSE coordinator.results[key].error)


====
